---- MODULE Spec2Model ----
(***************************************************************************)
(* App Store Connect client core: the JWT TokenManager (auth/jwt), the     *)
(* AppStoreConnectClient request executor and its self-imposed sliding     *)
(* window rate limiter (api/client), and the three-phase screenshot upload *)
(* (tools/screenshots).                                                    *)
(*                                                                         *)
(* Node runs the code on one thread: every handler runs from one await to  *)
(* the next without interruption, so one action is one such run.  Callers  *)
(* (Procs) are the concurrent logical calls; the clock is Date.now() in    *)
(* milliseconds.                                                           *)
(***************************************************************************)
EXTENDS Integers, Sequences, FiniteSets, TLC

(* ------------------------------ bounds -------------------------------- *)

\* concurrent callers
NumCallers == 2
\* signing operations (generateToken calls) one run may start
MaxGens == 3
\* steps of the clock in the token manager's specifications
MaxTokenTicks == 2
\* logical calls (request() calls) one caller may start
MaxCalls == 1
\* logical calls that completed before the run starts
PriorCalls == 50
\* the time between the first of them and the burst of the others, and
\* between the burst and the start of the run, ms
PriorGapMs == 1000

\* Date.now() when the run starts, ms
StartMs == 1000
\* the most pages the server holds for one paginate() call
MaxPages == 2
\* the most items of one page
MaxPageItems == 2
\* the largest maxItems a caller passes
MaxCap == 3
\* the page fetches one paginate() call may issue
MaxFetches == 4
\* the longest file of an upload, bytes
MaxFile == 2
\* the most upload operations a reserve response lists
MaxOps == 2
\* the most destroy() calls that are followed
MaxDestroys == 2
\* the most pieces a text is made of
MaxPieces == 4
\* the most error objects a response body lists
MaxErrors == 2
\* longest key path, in characters
MaxPath == 3

Procs == 1..NumCallers
Gens == 1..MaxGens

(* ------------------------- program constants -------------------------- *)

TOKEN_LIFETIME_SECONDS == 15 * 60
TOKEN_REFRESH_BUFFER_SECONDS == 5 * 60

\* the clock of the token manager's specifications moves in steps of one
\* refresh buffer (in ms), so that a cached token is seen fresh, inside the
\* buffer and expired
TokenTickMs == TOKEN_REFRESH_BUFFER_SECONDS * 1000

(* ------------------------------- state -------------------------------- *)

VARIABLES
  now,                     \* Date.now(), ms
  keySource,               \* privateKeySource.type: "path" | "content"
  cachedToken,             \* 0 = null, else the jwt (named by its signing)
  tokenExpiresAt,          \* seconds
  privateKey,              \* TRUE = a KeyLike is loaded, FALSE = null
  pendingTokenGeneration,  \* 0 = null, else the signing whose promise it holds
  gen,                     \* signing -> [st, iat]: each generateToken() call
  invalidated,             \* signings that were in flight when destroy() ran
  destroys,                \* destroy() calls so far
  pc,                      \* caller -> its position
  tokWait,                 \* caller -> the signing whose promise it awaits
  tokRes,                  \* caller -> what its getToken() returned
  timestamps,              \* rateLimiter.timestamps
  attempt,                 \* caller -> the loop counter of request()
  lastError,               \* caller -> lastError of request()
  wakeAt,                  \* caller -> when the timer of its sleep() fires
  sendAt,                  \* caller -> when its fetch() in flight was sent
  result,                  \* caller -> what request() returned or threw
  calls,                   \* caller -> logical calls it has started
  sendLog,                 \* the times of all network attempts, in order
  sends,                   \* caller -> network attempts of its call
  slots,                   \* caller -> timestamps its call recorded
  sleeps,                  \* caller -> the sleeps of its retry loop, ms
  tokCalls,                \* caller -> getToken() calls of its call
  only429,                 \* caller -> every attempt of its call met a 429
  rl,                      \* caller -> what its enforceRateLimit() found
  method,                  \* caller -> options.method of its call
  met,                     \* caller -> what each attempt of its call met
  upc,                     \* uploadScreenshot(): its position
  upSize,                  \* params.fileSize
  upFile,                  \* fileBuffer.length, -1 = no buffer
  upOps,                   \* screenshot.attributes.uploadOperations
  upIdx,                   \* the operation whose rawRequest() is in flight
  upSendAt,                \* when that rawRequest() was sent
  upThrown,                \* the error caught at the end of uploadScreenshot()
  upResult,                \* what uploadScreenshot() returned
  upChunks,                \* the rawRequest() calls made, in order
  upResps,                 \* what each of them returned or threw
  pgc,                     \* paginate(): its position
  pgPages,                 \* the pages the server holds
  maxItems,                \* maxItems, 0 = undefined
  cursor,                  \* cursor: the links.next last read
  pgReq,                   \* the page the get() in flight asks for
  pgPos,                   \* the place in response.data of the item yielded
  itemsYielded,            \* itemsYielded
  pgOut,                   \* the items yielded, in order
  pgFetches,               \* the pages fetched, in order
  pgErr,                   \* get() threw and paginate() with it
  params,                  \* params of paginate(): key -> value, 0 = absent
  queryParams,             \* queryParams of the get() made last
  raised,                  \* a failure: the text it is built from, its message
  apiError,                \* parseAPIError(): status, body, the ASCError made
  config                   \* new TokenManager(config): config and outcome

tmVars == <<keySource, cachedToken, tokenExpiresAt, privateKey,
            pendingTokenGeneration, gen, invalidated, destroys>>
callerVars == <<pc, tokWait, tokRes>>
clVars == <<timestamps, attempt, lastError, wakeAt, sendAt, result, calls,
           sendLog, sends, slots, sleeps, tokCalls, only429, rl, method,
           met>>
upVars == <<upc, upSize, upFile, upOps, upIdx, upSendAt, upThrown, upResult,
           upChunks, upResps>>
pgVars == <<pgc, pgPages, maxItems, cursor, pgReq, pgPos, itemsYielded, pgOut,
           pgFetches, pgErr, params, queryParams>>
fnVars == <<raised, apiError, config>>
vars == <<now, tmVars, callerVars, clVars, upVars, pgVars, fnVars>>

NoRes == [kind |-> "none", val |-> 0, code |-> "", status |-> 0]
Tok(g) == [kind |-> "token", val |-> g, code |-> "", status |-> 0]
\* an ASCError: its code and status (utils/errors)
Err(c, s) == [kind |-> "error", val |-> 0, code |-> c, status |-> s]
AuthError == Err("AUTH_ERROR", 401)
ConfigError == Err("CONFIG_ERROR", 500)

NowSec == now \div 1000

\* signings that have started and not settled
InFlight == {g \in Gens : gen[g].st \in {"load", "loaded", "sign"}}
FreeGens == {g \in Gens : gen[g].st = "unused"}

(* --------------------------- TokenManager ----------------------------- *)

\* the validity test with Date.now() taken in ms where the expiry is in s
MutHasValidTokenMs ==
  cachedToken # 0 /\ tokenExpiresAt > now + TOKEN_REFRESH_BUFFER_SECONDS

\* hasValidToken(), and the test at the top of getToken()
hasValidToken ==
  cachedToken # 0 /\ tokenExpiresAt > NowSec + TOKEN_REFRESH_BUFFER_SECONDS

\* getToken() with the pending check dropped: every caller that finds no
\* valid token starts its own signing
MutGetTokenNoPending(p, pcGot, pcWait) ==
  IF hasValidToken
  THEN /\ tokRes' = [tokRes EXCEPT ![p] = Tok(cachedToken)]
       /\ tokWait' = [tokWait EXCEPT ![p] = 0]
       /\ pc' = [pc EXCEPT ![p] = pcGot]
       /\ UNCHANGED <<pendingTokenGeneration, gen>>
  ELSE /\ FreeGens # {}
       /\ LET g == CHOOSE x \in FreeGens : \A y \in FreeGens : x <= y
          IN /\ gen' = [gen EXCEPT ![g] =
                          [st |-> IF privateKey THEN "sign" ELSE "load",
                           iat |-> NowSec]]
             /\ pendingTokenGeneration' = g
             /\ tokWait' = [tokWait EXCEPT ![p] = g]
       /\ tokRes' = [tokRes EXCEPT ![p] = NoRes]
       /\ pc' = [pc EXCEPT ![p] = pcWait]

\* getToken(): the cached token, or the pending promise, or a new
\* generateToken() (run up to its first await) whose promise becomes pending.
\* The caller goes to pcGot with the cached token, else to pcWait.
getToken(p, pcGot, pcWait) ==
  IF hasValidToken
  THEN /\ tokRes' = [tokRes EXCEPT ![p] = Tok(cachedToken)]
       /\ tokWait' = [tokWait EXCEPT ![p] = 0]
       /\ pc' = [pc EXCEPT ![p] = pcGot]
       /\ UNCHANGED <<pendingTokenGeneration, gen>>
  ELSE IF pendingTokenGeneration # 0
  THEN /\ tokWait' = [tokWait EXCEPT ![p] = pendingTokenGeneration]
       /\ tokRes' = [tokRes EXCEPT ![p] = NoRes]
       /\ pc' = [pc EXCEPT ![p] = pcWait]
       /\ UNCHANGED <<pendingTokenGeneration, gen>>
  ELSE /\ FreeGens # {}
       /\ LET g == CHOOSE x \in FreeGens : \A y \in FreeGens : x <= y
          IN /\ gen' = [gen EXCEPT ![g] =
                          [st |-> IF privateKey THEN "sign" ELSE "load",
                           iat |-> NowSec]]
             /\ pendingTokenGeneration' = g
             /\ tokWait' = [tokWait EXCEPT ![p] = g]
       /\ tokRes' = [tokRes EXCEPT ![p] = NoRes]
       /\ pc' = [pc EXCEPT ![p] = pcWait]

\* the promise of signing g settles with r: every caller awaiting it resumes
\* with r, and the .finally() callback clears the pending
\* marker whatever it holds
Settle(g, r, st) ==
  /\ gen' = [gen EXCEPT ![g] =
                  [st |-> st, iat |-> IF st = "ok" THEN gen[g].iat ELSE 0]]
  /\ pendingTokenGeneration' = 0
  /\ tokRes' = [p \in Procs |->
                  IF pc[p] = "tok_wait" /\ tokWait[p] = g THEN r ELSE tokRes[p]]
  /\ pc' = [p \in Procs |->
              IF pc[p] = "tok_wait" /\ tokWait[p] = g THEN "tok_done" ELSE pc[p]]
  /\ UNCHANGED tokWait

\* loadPrivateKey() succeeds: the key is stored
LoadKeyOk(g) ==
  /\ gen[g].st = "load"
  /\ privateKey' = TRUE
  /\ gen' = [gen EXCEPT ![g].st = "loaded"]
  /\ UNCHANGED <<now, keySource, cachedToken, tokenExpiresAt,
                 pendingTokenGeneration, invalidated, destroys, callerVars>>
  /\ UNCHANGED <<clVars, upVars, pgVars, fnVars>>

\* loadPrivateKey() throws: ConfigError when the file cannot be read (a path
\* source only), AuthError when importPKCS8 rejects the content
LoadKeyFail(g) ==
  /\ gen[g].st = "load"
  /\ \E r \in {AuthError} \cup (IF keySource = "path" THEN {ConfigError} ELSE {}) :
       Settle(g, r, "failed")
  /\ UNCHANGED <<now, keySource, cachedToken, tokenExpiresAt, privateKey,
                 invalidated, destroys>>
  /\ UNCHANGED <<clVars, upVars, pgVars, fnVars>>

\* generateToken() resumes after loadPrivateKey(): no key, AuthError; else it
\* starts SignJWT(...).sign(this.privateKey)
StartSign(g) ==
  /\ gen[g].st = "loaded"
  /\ IF privateKey
     THEN /\ gen' = [gen EXCEPT ![g].st = "sign"]
          /\ UNCHANGED <<pendingTokenGeneration, callerVars>>
     ELSE Settle(g, AuthError, "failed")
  /\ UNCHANGED <<now, keySource, cachedToken, tokenExpiresAt, privateKey,
                 invalidated, destroys>>
  /\ UNCHANGED <<clVars, upVars, pgVars, fnVars>>

\* sign() resolves, the expiry counted from the moment it resolves
MutSignOkExpiryLate(g) ==
  /\ gen[g].st = "sign"
  /\ cachedToken' = g
  /\ tokenExpiresAt' = NowSec + TOKEN_LIFETIME_SECONDS
  /\ Settle(g, Tok(g), "ok")
  /\ UNCHANGED <<now, keySource, privateKey, invalidated, destroys>>
  /\ UNCHANGED <<clVars, upVars, pgVars, fnVars>>

\* sign() resolves: the jwt and its expiry are cached and returned
SignOk(g) ==
  /\ gen[g].st = "sign"
  /\ cachedToken' = g
  /\ tokenExpiresAt' = gen[g].iat + TOKEN_LIFETIME_SECONDS
  /\ Settle(g, Tok(g), "ok")
  /\ UNCHANGED <<now, keySource, privateKey, invalidated, destroys>>
  /\ UNCHANGED <<clVars, upVars, pgVars, fnVars>>

\* sign() rejects: AuthError("Failed to generate JWT: ...")
SignFail(g) ==
  /\ gen[g].st = "sign"
  /\ Settle(g, AuthError, "failed")
  /\ UNCHANGED <<now, keySource, cachedToken, tokenExpiresAt, privateKey,
                 invalidated, destroys>>
  /\ UNCHANGED <<clVars, upVars, pgVars, fnVars>>

\* destroy() with the loaded key left in place
MutDestroyKeepsKey ==
  /\ destroys < MaxDestroys
  /\ destroys' = destroys + 1
  /\ cachedToken' = 0
  /\ tokenExpiresAt' = 0
  /\ pendingTokenGeneration' = 0
  /\ invalidated' = invalidated \cup InFlight
  /\ UNCHANGED <<now, keySource, privateKey, gen, callerVars>>
  /\ UNCHANGED <<clVars, upVars, pgVars, fnVars>>

\* destroy()
destroy ==
  /\ destroys < MaxDestroys
  /\ destroys' = destroys + 1
  /\ cachedToken' = 0
  /\ tokenExpiresAt' = 0
  /\ privateKey' = FALSE
  /\ pendingTokenGeneration' = 0
  /\ invalidated' = invalidated \cup InFlight
  /\ UNCHANGED <<now, keySource, gen, callerVars>>
  /\ UNCHANGED <<clVars, upVars, pgVars, fnVars>>

(* -------------------- callers of the token manager -------------------- *)

\* a caller calls tokenManager.getToken()
CallGetToken(p) ==
  /\ pc[p] = "idle"
  /\ getToken(p, "tok_done", "tok_wait")
  /\ UNCHANGED <<now, keySource, cachedToken, tokenExpiresAt, privateKey,
                 invalidated, destroys>>
  /\ UNCHANGED <<clVars, upVars, pgVars, fnVars>>

\* the caller has its token (or failure) and is ready for another call
Return(p) ==
  /\ pc[p] = "tok_done"
  /\ pc' = [pc EXCEPT ![p] = "idle"]
  /\ tokWait' = [tokWait EXCEPT ![p] = 0]
  /\ tokRes' = [tokRes EXCEPT ![p] = NoRes]
  /\ UNCHANGED <<now, tmVars>>
  /\ UNCHANGED <<clVars, upVars, pgVars, fnVars>>

\* time passes
TokenTick ==
  /\ now + TokenTickMs <= StartMs + MaxTokenTicks * TokenTickMs
  /\ now' = now + TokenTickMs
  /\ UNCHANGED <<tmVars, callerVars>>
  /\ UNCHANGED <<clVars, upVars, pgVars, fnVars>>

(* ----------------------- AppStoreConnectClient ------------------------ *)

DEFAULT_TIMEOUT_MS == 30000
MAX_RETRIES == 3
INITIAL_RETRY_DELAY_MS == 1000
RATE_LIMIT_WINDOW_MS == 60000
MAX_REQUESTS_PER_WINDOW == 50

\* new RateLimitError(retryAfter): code RATE_LIMIT, status 429
RateLimitError(ra) ==
  [kind |-> "error", val |-> ra, code |-> "RATE_LIMIT", status |-> 429]
Value == [kind |-> "value", val |-> 0, code |-> "", status |-> 0]
\* no enforceRateLimit() call yet
NoLimit == [at |-> 0, seen |-> 0, oldest |-> 0, wait |-> 0]

\* parseAPIError(status, body): the failure's code by the status
parseAPIError(status) ==
  IF status = 401 THEN AuthError
  ELSE IF status = 429 THEN RateLimitError(60)
  ELSE IF status = 404 THEN Err("NOT_FOUND", 404)
  ELSE IF status = 403 THEN Err("FORBIDDEN", 403)
  ELSE IF status = 409 THEN Err("CONFLICT", 409)
  ELSE Err("API_ERROR", status)

\* options.method: get(), post(), patch(), delete()
Methods == {"GET", "POST", "PATCH", "DELETE"}

\* what one attempt can meet: a response (its status; for a 429 its
\* Retry-After header, 0 = absent; whether its body parses as JSON), a
\* rejected fetch, or the abort of the attempt's timer.  applied tells
\* whether the server received the request and carried it out: it did when
\* it answers 2xx, it did not when it answers 4xx, and either is possible
\* behind a 5xx, a rejected fetch or an abort
Responses ==
  {[kind |-> "http", status |-> s, retryAfter |-> 0, json |-> j,
    applied |-> TRUE] : s \in {200, 204}, j \in {TRUE}}
  \cup {[kind |-> "http", status |-> 200, retryAfter |-> 0, json |-> FALSE,
         applied |-> TRUE]}
  \cup {[kind |-> "http", status |-> 404, retryAfter |-> 0, json |-> j,
         applied |-> FALSE] : j \in BOOLEAN}
  \cup {[kind |-> "http", status |-> 429, retryAfter |-> ra, json |-> TRUE,
         applied |-> FALSE] : ra \in {0, 2}}
  \cup {[kind |-> "http", status |-> 500, retryAfter |-> 0, json |-> TRUE,
         applied |-> a] : a \in BOOLEAN}
  \cup {[kind |-> k, status |-> 0, retryAfter |-> 0, json |-> FALSE,
         applied |-> a] : k \in {"network", "abort"}, a \in BOOLEAN}

\* the attempt sent nothing: getToken() threw
NoFetch ==
  [kind |-> "token", status |-> 0, retryAfter |-> 0, json |-> FALSE,
   applied |-> FALSE]

\* executeRequest() that looks at response.ok before it reads the body
MutOutcomeStatusFirst(r) ==
  IF r.kind = "abort" THEN Err("TIMEOUT", 408)
  ELSE IF r.kind = "network" THEN Err("NETWORK_ERROR", 0)
  ELSE IF r.status = 429
  THEN RateLimitError(IF r.retryAfter = 0 THEN 60 ELSE r.retryAfter)
  ELSE IF r.status = 204 THEN Value
  ELSE IF r.status < 200 \/ r.status > 299 THEN parseAPIError(r.status)
  ELSE IF ~r.json THEN Err("NETWORK_ERROR", 0)
  ELSE Value

\* executeRequest() whose catch rethrows what fetch rejected with, not an
\* ASCError made of it
MutOutcomeUnwrapped(r) ==
  IF r.kind = "abort" THEN Err("TIMEOUT", 408)
  ELSE IF r.kind = "network" THEN Err("", 0)
  ELSE IF r.status = 429
  THEN RateLimitError(IF r.retryAfter = 0 THEN 60 ELSE r.retryAfter)
  ELSE IF r.status = 204 THEN Value
  ELSE IF ~r.json THEN Err("", 0)
  ELSE IF r.status < 200 \/ r.status > 299 THEN parseAPIError(r.status)
  ELSE Value

\* executeRequest() with the Retry-After header never read
MutOutcomeIgnoreHeader(r) ==
  IF r.kind = "abort" THEN Err("TIMEOUT", 408)
  ELSE IF r.kind = "network" THEN Err("NETWORK_ERROR", 0)
  ELSE IF r.status = 429 THEN RateLimitError(60)
  ELSE IF r.status = 204 THEN Value
  ELSE IF ~r.json THEN Err("NETWORK_ERROR", 0)
  ELSE IF r.status < 200 \/ r.status > 299 THEN parseAPIError(r.status)
  ELSE Value

\* executeRequest() from the fetch on: what it returns or throws for r
Outcome(r) ==
  IF r.kind = "abort" THEN Err("TIMEOUT", 408)
  ELSE IF r.kind = "network" THEN Err("NETWORK_ERROR", 0)
  ELSE IF r.status = 429
  THEN RateLimitError(IF r.retryAfter = 0 THEN 60 ELSE r.retryAfter)
  ELSE IF r.status = 204 THEN Value
  ELSE IF ~r.json THEN Err("NETWORK_ERROR", 0)
  ELSE IF r.status < 200 \/ r.status > 299 THEN parseAPIError(r.status)
  ELSE Value

\* timestamps.filter((ts) => now - ts < RATE_LIMIT_WINDOW_MS)
Fresh(ts, t) == SelectSeq(ts, LAMBDA x : t - x < RATE_LIMIT_WINDOW_MS)

\* the limit test with > for >=
MutAtLimitOffByOne(ts) == Len(ts) > MAX_REQUESTS_PER_WINDOW

\* enforceRateLimit(): timestamps.length >= MAX_REQUESTS_PER_WINDOW
AtLimit(ts) == Len(ts) >= MAX_REQUESTS_PER_WINDOW

\* request() begins: enforceRateLimit() up to its sleep, or to its end
Request(p, ms) ==
  /\ pc[p] = "idle"
  /\ \E m \in ms : method' = [method EXCEPT ![p] = m]
  /\ calls[p] < MaxCalls
  /\ calls' = [calls EXCEPT ![p] = @ + 1]
  /\ LET ts == Fresh(timestamps, now)
         waitTime == RATE_LIMIT_WINDOW_MS - (now - ts[1])
     IN IF AtLimit(ts) /\ ts[1] # 0 /\ waitTime > 0
        THEN /\ timestamps' = ts
             /\ wakeAt' = [wakeAt EXCEPT ![p] = now + waitTime]
             /\ pc' = [pc EXCEPT ![p] = "rl_sleep"]
             /\ rl' = [rl EXCEPT ![p] = [at |-> now, seen |-> Len(ts),
                                         oldest |-> ts[1], wait |-> waitTime]]
             /\ UNCHANGED slots
        ELSE /\ timestamps' = Append(ts, now)
             /\ slots' = [slots EXCEPT ![p] = @ + 1]
             /\ pc' = [pc EXCEPT ![p] = "exec"]
             /\ rl' = [rl EXCEPT ![p] = [at |-> now, seen |-> Len(ts),
                                         oldest |-> 0, wait |-> 0]]
             /\ UNCHANGED wakeAt
  /\ UNCHANGED <<now, tmVars, tokWait, tokRes, attempt, lastError, sendAt,
                 result, sendLog, sends, sleeps, tokCalls, only429, met>>

\* enforceRateLimit() after its sleep: filter again, record the request
RateWake(p) ==
  /\ pc[p] = "rl_sleep"
  /\ now >= wakeAt[p]
  /\ timestamps' = Append(Fresh(timestamps, now), now)
  /\ slots' = [slots EXCEPT ![p] = @ + 1]
  /\ pc' = [pc EXCEPT ![p] = "exec"]
  /\ UNCHANGED <<now, tmVars, tokWait, tokRes, attempt, lastError, wakeAt,
                 sendAt, result, calls, sendLog, sends, sleeps, tokCalls,
                 only429>>
  /\ UNCHANGED <<rl, method, met, upVars, pgVars, fnVars>>

\* await this.sleep(ms)
Sleep(p, ms) ==
  /\ pc' = [pc EXCEPT ![p] = "sleep"]
  /\ wakeAt' = [wakeAt EXCEPT ![p] = now + ms]
  /\ sleeps' = [sleeps EXCEPT ![p] = Append(@, ms)]
  /\ UNCHANGED <<attempt, result>>

\* a throw that takes every fetch in flight with it, as with one
\* AbortController shared by the calls
MutThrowAbortsAll(p, e) ==
  /\ pc' = [q \in Procs |->
              IF q = p \/ pc[q] = "fetch" THEN "done" ELSE pc[q]]
  /\ result' = [q \in Procs |->
                  IF q = p \/ pc[q] = "fetch" THEN e ELSE result[q]]
  /\ UNCHANGED <<wakeAt, sleeps, attempt>>

\* request() throws e to its caller
Throw(p, e) ==
  /\ pc' = [pc EXCEPT ![p] = "done"]
  /\ result' = [result EXCEPT ![p] = e]
  /\ UNCHANGED <<wakeAt, sleeps, attempt>>

\* the catch block throwing the 429 of the last attempt at once
MutCatchThrowLast429(p, e) ==
  /\ lastError' = [lastError EXCEPT ![p] = e]
  /\ IF e.status >= 400 /\ e.status < 500
     THEN IF e.code = "RATE_LIMIT" /\ attempt[p] < MAX_RETRIES - 1
          THEN Sleep(p, e.val * 1000)
          ELSE Throw(p, e)
     ELSE IF attempt[p] < MAX_RETRIES - 1
          THEN Sleep(p, INITIAL_RETRY_DELAY_MS * 2 ^ attempt[p])
          ELSE Throw(p, e)

\* the catch block with the 429 branch sleeping and retrying in place,
\* without the loop counter
MutCatchFree429(p, e) ==
  /\ lastError' = [lastError EXCEPT ![p] = e]
  /\ IF e.status >= 400 /\ e.status < 500
     THEN IF e.code = "RATE_LIMIT"
          THEN /\ pc' = [pc EXCEPT ![p] = "sleep"]
               /\ wakeAt' = [wakeAt EXCEPT ![p] = now + e.val * 1000]
               /\ sleeps' = [sleeps EXCEPT ![p] = Append(@, e.val * 1000)]
               /\ attempt' = [attempt EXCEPT ![p] = @ - 1]
               /\ UNCHANGED result
          ELSE Throw(p, e)
     ELSE IF attempt[p] < MAX_RETRIES - 1
          THEN Sleep(p, INITIAL_RETRY_DELAY_MS * 2 ^ attempt[p])
          ELSE Throw(p, e)

\* the catch block with a backoff that does not grow
MutCatchFlatBackoff(p, e) ==
  /\ lastError' = [lastError EXCEPT ![p] = e]
  /\ IF e.status >= 400 /\ e.status < 500
     THEN IF e.code = "RATE_LIMIT"
          THEN Sleep(p, e.val * 1000)
          ELSE Throw(p, e)
     ELSE IF attempt[p] < MAX_RETRIES - 1
          THEN Sleep(p, INITIAL_RETRY_DELAY_MS)
          ELSE Throw(p, e)

\* the catch block with a backoff after the last attempt as well
MutCatchSleepAfterLast(p, e) ==
  /\ lastError' = [lastError EXCEPT ![p] = e]
  /\ IF e.status >= 400 /\ e.status < 500
     THEN IF e.code = "RATE_LIMIT"
          THEN Sleep(p, e.val * 1000)
          ELSE Throw(p, e)
     ELSE Sleep(p, INITIAL_RETRY_DELAY_MS * 2 ^ attempt[p])

\* the catch block of request(): a 4xx is thrown unless it is a
\* RateLimitError, which sleeps retryAfter s; anything else backs off while
\* attempts remain; after the last attempt lastError is thrown
Catch(p, e) ==
  /\ lastError' = [lastError EXCEPT ![p] = e]
  /\ IF e.status >= 400 /\ e.status < 500
     THEN IF e.code = "RATE_LIMIT"
          THEN Sleep(p, e.val * 1000)
          ELSE Throw(p, e)
     ELSE IF attempt[p] < MAX_RETRIES - 1
          THEN Sleep(p, INITIAL_RETRY_DELAY_MS * 2 ^ attempt[p])
          ELSE Throw(p, e)

\* executeRequest() begins: await this.tokenManager.getToken()
Exec(p) ==
  /\ pc[p] = "exec"
  /\ getToken(p, "tok_done", "tok_wait")
  /\ tokCalls' = [tokCalls EXCEPT ![p] = @ + 1]
  /\ UNCHANGED <<now, keySource, cachedToken, tokenExpiresAt, privateKey,
                 invalidated, destroys, timestamps, attempt, lastError, wakeAt,
                 sendAt, result, calls, sendLog, sends, slots, sleeps, only429>>
  /\ UNCHANGED <<rl, method, met, upVars, pgVars, fnVars>>

\* the fetch sent without awaiting getToken()
MutSendBeforeToken(p) ==
  /\ pc[p] \in {"tok_wait", "tok_done"}
  /\ tokRes[p].kind # "error"
  /\ pc' = [pc EXCEPT ![p] = "fetch"]
  /\ sendAt' = [sendAt EXCEPT ![p] = now]
  /\ sendLog' = Append(sendLog, now)
  /\ sends' = [sends EXCEPT ![p] = @ + 1]
  /\ UNCHANGED <<now, tmVars, tokWait, tokRes, timestamps, attempt, lastError,
                 wakeAt, result, calls, slots, sleeps, tokCalls, only429>>
  /\ UNCHANGED <<rl, method, met, upVars, pgVars, fnVars>>

\* getToken() returned a token: fetch(url, {headers: Bearer token, signal})
Send(p) ==
  /\ pc[p] = "tok_done"
  /\ tokRes[p].kind = "token"
  /\ pc' = [pc EXCEPT ![p] = "fetch"]
  /\ sendAt' = [sendAt EXCEPT ![p] = now]
  /\ sendLog' = Append(sendLog, now)
  /\ sends' = [sends EXCEPT ![p] = @ + 1]
  /\ UNCHANGED <<now, tmVars, tokWait, tokRes, timestamps, attempt, lastError,
                 wakeAt, result, calls, slots, sleeps, tokCalls, only429>>
  /\ UNCHANGED <<rl, method, met, upVars, pgVars, fnVars>>

\* getToken() threw: executeRequest() throws it on to request()'s catch
TokenFailed(p) ==
  /\ pc[p] = "tok_done"
  /\ tokRes[p].kind = "error"
  /\ Catch(p, tokRes[p])
  /\ only429' = [only429 EXCEPT ![p] = FALSE]
  /\ UNCHANGED <<now, tmVars, tokWait, tokRes, timestamps, sendAt, calls,
                 sendLog, sends, slots, tokCalls>>
  /\ met' = [met EXCEPT ![p] = Append(@, NoFetch)]
  /\ UNCHANGED <<rl, method, upVars, pgVars, fnVars>>

\* the attempt ends with one of rs: a response or a rejected fetch before
\* the attempt's timer has run out, the abort once it has
Respond(p, rs) ==
  /\ pc[p] = "fetch"
  /\ \E r \in rs :
       /\ r.kind = "abort" <=> now >= sendAt[p] + DEFAULT_TIMEOUT_MS
       /\ only429' = [only429 EXCEPT ![p] =
                        @ /\ r.kind = "http" /\ r.status = 429]
       /\ met' = [met EXCEPT ![p] = Append(@, r)]
       /\ IF Outcome(r).kind = "value"
          THEN /\ pc' = [pc EXCEPT ![p] = "done"]
               /\ result' = [result EXCEPT ![p] = Value]
               /\ UNCHANGED <<lastError, wakeAt, sleeps, attempt>>
          ELSE Catch(p, Outcome(r))
  /\ UNCHANGED <<now, tmVars, tokWait, tokRes, timestamps, sendAt, calls,
                 sendLog, sends, slots, tokCalls>>
  /\ UNCHANGED <<rl, method, upVars, pgVars, fnVars>>

\* a retry loop that takes the token once, before the loop: after its
\* sleep it sends again with the token it has
MutRetryWakeResend(p) ==
  /\ pc[p] = "sleep"
  /\ now >= wakeAt[p]
  /\ attempt' = [attempt EXCEPT ![p] = @ + 1]
  /\ IF attempt[p] + 1 < MAX_RETRIES
     THEN /\ pc' = [pc EXCEPT ![p] = "fetch"]
          /\ sendAt' = [sendAt EXCEPT ![p] = now]
          /\ sendLog' = Append(sendLog, now)
          /\ sends' = [sends EXCEPT ![p] = @ + 1]
          /\ UNCHANGED result
     ELSE /\ pc' = [pc EXCEPT ![p] = "done"]
          /\ result' = [result EXCEPT ![p] = lastError[p]]
          /\ UNCHANGED <<sendAt, sendLog, sends>>
  /\ UNCHANGED <<now, tmVars, tokWait, tokRes, timestamps, lastError, wakeAt,
                 calls, slots, sleeps, tokCalls, only429>>
  /\ UNCHANGED <<rl, method, met, upVars, pgVars, fnVars>>

\* the sleep of the retry loop ends: attempt++, and the next attempt or,
\* after the last one, throw lastError
RetryWake(p) ==
  /\ pc[p] = "sleep"
  /\ now >= wakeAt[p]
  /\ attempt' = [attempt EXCEPT ![p] = @ + 1]
  /\ IF attempt[p] + 1 < MAX_RETRIES
     THEN /\ pc' = [pc EXCEPT ![p] = "exec"]
          /\ UNCHANGED result
     ELSE /\ pc' = [pc EXCEPT ![p] = "done"]
          /\ result' = [result EXCEPT ![p] = lastError[p]]
  /\ UNCHANGED <<now, tmVars, tokWait, tokRes, timestamps, lastError, wakeAt,
                 sendAt, calls, sendLog, sends, slots, sleeps, tokCalls,
                 only429>>
  /\ UNCHANGED <<rl, method, met, upVars, pgVars, fnVars>>

\* the caller has its result and is ready for another logical call
Finish(p) ==
  /\ pc[p] = "done"
  /\ pc' = [pc EXCEPT ![p] = "idle"]
  /\ tokWait' = [tokWait EXCEPT ![p] = 0]
  /\ tokRes' = [tokRes EXCEPT ![p] = NoRes]
  /\ attempt' = [attempt EXCEPT ![p] = 0]
  /\ lastError' = [lastError EXCEPT ![p] = NoRes]
  /\ wakeAt' = [wakeAt EXCEPT ![p] = 0]
  /\ sendAt' = [sendAt EXCEPT ![p] = 0]
  /\ result' = [result EXCEPT ![p] = NoRes]
  /\ sends' = [sends EXCEPT ![p] = 0]
  /\ slots' = [slots EXCEPT ![p] = 0]
  /\ sleeps' = [sleeps EXCEPT ![p] = <<>>]
  /\ tokCalls' = [tokCalls EXCEPT ![p] = 0]
  /\ only429' = [only429 EXCEPT ![p] = TRUE]
  /\ rl' = [rl EXCEPT ![p] = NoLimit]
  /\ method' = [method EXCEPT ![p] = ""]
  /\ met' = [met EXCEPT ![p] = <<>>]
  /\ UNCHANGED <<now, tmVars, timestamps, calls, sendLog, upVars, pgVars, fnVars>>

\* the timers without the sleep of enforceRateLimit(): a wait that no
\* timer ends
MutDeadlinesNoLimiter ==
  {wakeAt[p] : p \in {q \in Procs : pc[q] = "sleep"}}
  \cup {sendAt[p] + DEFAULT_TIMEOUT_MS : p \in {q \in Procs : pc[q] = "fetch"}}

\* the timers and deadlines still ahead
Deadlines ==
  {wakeAt[p] : p \in {q \in Procs : pc[q] \in {"rl_sleep", "sleep"}}}
  \cup {sendAt[p] + DEFAULT_TIMEOUT_MS : p \in {q \in Procs : pc[q] = "fetch"}}

\* time passes, up to the next timer
ClientTick ==
  /\ \E d \in Deadlines :
       /\ d > now
       /\ \A e \in Deadlines : e > now => d <= e
       /\ now' = d
  /\ UNCHANGED <<tmVars, callerVars, clVars, upVars, pgVars, fnVars>>

(* ---------------------------- utils/errors --------------------------- *)

\* no failure has been built
NoRaise == [text |-> <<>>, via |-> "none", message |-> <<>>]
\* parseAPIError() has not been called
NoParse == [status |-> 0, errors |-> <<>>, given |-> FALSE, made |-> NoRes,
            message |-> <<>>]
\* the constructor is not under study
NoConfig == [privateKeyPath |-> <<>>, pathGiven |-> FALSE,
             privateKeyContent |-> <<>>, contentGiven |-> FALSE,
             outcome |-> "none"]

\* a text is a sequence of characters; the pieces the texts are made of
Bearer == <<"B", "e", "a", "r", "e", "r", " ">>
Jwt == <<"h", ".", "p", ".", "s">>
Uuid ==
  <<"1", "2", "3", "4", "5", "6", "7", "8", "-", "1", "2", "3", "4", "-",
    "1", "2", "3", "4", "-", "1", "2", "3", "4", "-",
    "1", "2", "3", "4", "5", "6", "7", "8", "9", "0", "1", "2">>
Dashes == <<"-", "-", "-", "-", "-">>
Begin == Dashes \o <<"B", "E", "G", "I", "N">>
End == Dashes \o <<"E", "N", "D">>
Pieces == {Bearer, Jwt, Uuid, Begin, End, Dashes, <<" ">>, <<"\n">>}

RECURSIVE Flatten(_)
Flatten(ps) == IF ps = <<>> THEN <<>> ELSE Head(ps) \o Flatten(Tail(ps))

\* the texts a failure can be built from: up to MaxPieces pieces in a row
Texts ==
  {Flatten(ps) : ps \in UNION {[1..n -> Pieces] : n \in 0..MaxPieces}}

\* [A-Za-z0-9\-_] and [A-Za-z0-9]
IsTokenChar(c) == c \notin {".", " ", "\n", "[", "]"}
IsAlnum(c) == IsTokenChar(c) /\ c # "-"

\* the literal w stands in t at i
Lit(t, i, w) ==
  /\ i + Len(w) - 1 <= Len(t)
  /\ \A k \in 1..Len(w) : t[i + k - 1] = w[k]

\* the end of the run [A-Za-z0-9\-_]* of t from i on
RECURSIVE RunEnd(_, _)
RunEnd(t, i) ==
  IF i > Len(t) \/ ~IsTokenChar(t[i]) THEN i ELSE RunEnd(t, i + 1)

NoNewline(t, a, b) == \A x \in a..b : t[x] # "\n"

Least(S) == CHOOSE x \in S : \A y \in S : x <= y

\* /Bearer [A-Za-z0-9\-_]+\.[A-Za-z0-9\-_]+\.[A-Za-z0-9\-_]+/ at i: the
\* place after the match, 0 when there is none
JwtEnd(t, i) ==
  IF ~Lit(t, i, Bearer) THEN 0
  ELSE LET a == RunEnd(t, i + 7)
       IN IF a = i + 7 \/ ~Lit(t, a, <<".">>) THEN 0
          ELSE LET b == RunEnd(t, a + 1)
               IN IF b = a + 1 \/ ~Lit(t, b, <<".">>) THEN 0
                  ELSE LET c == RunEnd(t, b + 1)
                       IN IF c = b + 1 THEN 0 ELSE c

\* the closing dashes of an END line that starts at k
EndCloses(t, k) ==
  {l \in (k + 8)..Len(t) : Lit(t, l, Dashes) /\ NoNewline(t, k + 8, l - 1)}

\* the END lines after j that close
Ends(t, j) == {k \in j..Len(t) : Lit(t, k, End) /\ EndCloses(t, k) # {}}

\* /-----BEGIN.*?-----[\s\S]*?-----END.*?-----/ at i: each lazy part takes
\* the least that lets the rest match
PemEnd(t, i) ==
  IF ~Lit(t, i, Begin) THEN 0
  ELSE LET js == {j \in (i + 10)..Len(t) :
                    /\ Lit(t, j, Dashes)
                    /\ NoNewline(t, i + 10, j - 1)
                    /\ Ends(t, j + 5) # {}}
       IN IF js = {} THEN 0
          ELSE Least(EndCloses(t, Least(Ends(t, Least(js) + 5)))) + 5

\* /[A-Za-z0-9]{8}-[A-Za-z0-9]{4}-[A-Za-z0-9]{4}-[A-Za-z0-9]{4}-[A-Za-z0-9]{12}/
UuidEnd(t, i) ==
  IF /\ i + 35 <= Len(t)
     /\ \A k \in 0..35 :
          IF k \in {8, 13, 18, 23} THEN t[i + k] = "-" ELSE IsAlnum(t[i + k])
  THEN i + 36
  ELSE 0

\* getSensitivePatterns(), in its order
Patterns == <<"jwt", "pem", "uuid">>

MatchEnd(pattern, t, i) ==
  IF pattern = "jwt" THEN JwtEnd(t, i)
  ELSE IF pattern = "pem" THEN PemEnd(t, i)
  ELSE UuidEnd(t, i)

REDACTED == <<"[", "R", "E", "D", "A", "C", "T", "E", "D", "]">>

\* replace(pattern, "[REDACTED]") with the g flag: every match, left to
\* right, the search going on after each match
RECURSIVE Replace(_, _, _)
Replace(pattern, t, i) ==
  IF i > Len(t) THEN <<>>
  ELSE LET e == MatchEnd(pattern, t, i)
       IN IF e # 0
          THEN REDACTED \o Replace(pattern, t, e)
          ELSE <<t[i]>> \o Replace(pattern, t, i + 1)

\* replace() without the g flag: the first match only
RECURSIVE ReplaceFirst(_, _, _)
ReplaceFirst(pattern, t, i) ==
  IF i > Len(t) THEN <<>>
  ELSE LET e == MatchEnd(pattern, t, i)
       IN IF e # 0
          THEN REDACTED \o SubSeq(t, e, Len(t))
          ELSE <<t[i]>> \o ReplaceFirst(pattern, t, i + 1)

\* sanitizeMessage() with patterns that lack the g flag
MutSanitizeFirstOnly(m) ==
  ReplaceFirst("uuid", ReplaceFirst("pem", ReplaceFirst("jwt", m, 1), 1), 1)

\* sanitizeMessage(message)
sanitizeMessage(m) ==
  Replace("uuid", Replace("pem", Replace("jwt", m, 1), 1), 1)

\* new ASCError(message, ...): super(sanitizeMessage(message))
NewASCError ==
  /\ raised.via = "none"
  /\ raised' = [raised EXCEPT !.via = "ASCError",
                              !.message = sanitizeMessage(raised.text)]
  /\ UNCHANGED <<now, tmVars, callerVars, clVars, upVars, pgVars, apiError,
                 config>>

\* formatErrorResponse(error) for an Error that is no ASCError
FormatError ==
  /\ raised.via = "none"
  /\ raised' = [raised EXCEPT !.via = "formatErrorResponse",
                              !.message = sanitizeMessage(raised.text)]
  /\ UNCHANGED <<now, tmVars, callerVars, clVars, upVars, pgVars, apiError,
                 config>>

\* the fixed texts of parseAPIError(), each written as one element
AuthFailedText == <<"Authentication failed">>
ForbiddenText == <<"Access forbidden. Check your API key permissions.">>
NotFoundText == <<"Resource not found">>
ConflictText == <<"Conflict with current state">>
RateLimitText == <<"Rate limit exceeded. Retry after 60 seconds.">>
StatusText(status) == <<"API request failed with status", status>>

\* the statuses that reach parseAPIError(): not ok, and neither 204 nor 429,
\* which executeRequest() handles before
ParsedStatuses == {400, 401, 403, 404, 409, 422, 500, 503}

\* the detail texts of the error objects of a body
Details == {<<"n", "o">>, Uuid, <<"i", "d", " ">> \o Uuid}

\* an error object: with or without a detail
ErrorObjects ==
  {[has |-> FALSE, detail |-> <<>>]}
  \cup {[has |-> TRUE, detail |-> d] : d \in Details}

\* body.errors: up to MaxErrors error objects
ErrorLists == UNION {[1..n -> ErrorObjects] : n \in 0..MaxErrors}

\* errors?.[k]?.detail ?? fallback
DetailOr(errors, k, fallback) ==
  IF Len(errors) >= k /\ errors[k].has THEN errors[k].detail ELSE fallback

\* parseAPIError() taking the detail of the last error object
MutParseMessageLast(status, errors) ==
  LET last == IF errors = <<>> THEN 1 ELSE Len(errors)
  IN sanitizeMessage(
       IF status = 401 THEN AuthFailedText
       ELSE IF status = 429 THEN RateLimitText
       ELSE IF status = 404 THEN DetailOr(errors, last, NotFoundText)
       ELSE IF status = 403 THEN ForbiddenText
       ELSE IF status = 409 THEN DetailOr(errors, last, ConflictText)
       ELSE DetailOr(errors, last, StatusText(status)))

\* the message of the ASCError parseAPIError(status, body) makes: the text
\* chosen by the status, through the constructor's sanitizeMessage()
parseMessage(status, errors) ==
  sanitizeMessage(
    IF status = 401 THEN AuthFailedText
    ELSE IF status = 429 THEN RateLimitText
    ELSE IF status = 404 THEN DetailOr(errors, 1, NotFoundText)
    ELSE IF status = 403 THEN ForbiddenText
    ELSE IF status = 409 THEN DetailOr(errors, 1, ConflictText)
    ELSE DetailOr(errors, 1, StatusText(status)))

\* throw parseAPIError(response.status, body)
Parse ==
  /\ apiError.made = NoRes
  /\ apiError' = [apiError EXCEPT
                    !.made = parseAPIError(apiError.status),
                    !.message = parseMessage(apiError.status, apiError.errors)]
  /\ UNCHANGED <<now, tmVars, callerVars, clVars, upVars, pgVars, raised,
                 config>>

(* ----------------------- TokenManager constructor --------------------- *)

\* a key path is a sequence of characters
PathChars == {"a", ".", "/"}
Paths == UNION {[1..n -> PathChars] : n \in 0..MaxPath}
\* inline key content: the empty string or some key text
Contents == {<<>>, <<"k">>}
\* the configs the constructor can be given; a field that is absent is
\* undefined
PathConfigs ==
  {[NoConfig EXCEPT !.privateKeyPath = p, !.pathGiven = TRUE] : p \in Paths}
  \cup {NoConfig}
Configs ==
  PathConfigs
  \cup {[c EXCEPT !.privateKeyContent = k, !.contentGiven = TRUE] :
          c \in PathConfigs, k \in Contents}

\* String.prototype.includes
includes(s, sub) ==
  \E i \in 1..(Len(s) - Len(sub) + 1) : SubSeq(s, i, i + Len(sub) - 1) = sub

\* a field that is neither undefined nor the empty string
Truthy(given, s) == given /\ s # <<>>

\* a constructor that looks at the inline content before the path
MutConstructContentFirst ==
  /\ config.outcome = "none"
  /\ keySource = "none"
  /\ IF Truthy(config.contentGiven, config.privateKeyContent)
       THEN /\ config' = [config EXCEPT !.outcome = "instance"]
            /\ keySource' = "content"
       ELSE IF Truthy(config.pathGiven, config.privateKeyPath)
         THEN IF includes(config.privateKeyPath, <<".", ".">>)
                THEN /\ config' = [config EXCEPT !.outcome = ConfigError.code]
                     /\ UNCHANGED keySource
                ELSE /\ config' = [config EXCEPT !.outcome = "instance"]
                     /\ keySource' = "path"
         ELSE /\ config' = [config EXCEPT !.outcome = ConfigError.code]
              /\ UNCHANGED keySource
  /\ UNCHANGED <<now, cachedToken, tokenExpiresAt, privateKey,
                 pendingTokenGeneration, gen, invalidated, destroys,
                 callerVars, clVars, upVars, pgVars, raised, apiError>>

\* new TokenManager(config)
Construct ==
  /\ config.outcome = "none"
  /\ keySource = "none"
  /\ IF Truthy(config.pathGiven, config.privateKeyPath)
       THEN IF includes(config.privateKeyPath, <<".", ".">>)
              THEN /\ config' = [config EXCEPT !.outcome = ConfigError.code]
                   /\ UNCHANGED keySource
              ELSE /\ config' = [config EXCEPT !.outcome = "instance"]
                   /\ keySource' = "path"
       ELSE IF Truthy(config.contentGiven, config.privateKeyContent)
         THEN /\ config' = [config EXCEPT !.outcome = "instance"]
              /\ keySource' = "content"
         ELSE /\ config' = [config EXCEPT !.outcome = ConfigError.code]
              /\ UNCHANGED keySource
  /\ UNCHANGED <<now, cachedToken, tokenExpiresAt, privateKey,
                 pendingTokenGeneration, gen, invalidated, destroys,
                 callerVars, clVars, upVars, pgVars, raised, apiError>>

(* -------------------------- uploadScreenshot -------------------------- *)

\* uploadOperations absent from the reserve response
NoPlan == [present |-> FALSE, ops |-> <<>>]
\* uploadScreenshot() has not returned
NoReturn == [success |-> FALSE, code |-> "", message |-> <<>>]

\* the logical calls of one upload: client.post() and client.patch()
ReserveCall == 1
CommitCall == 2

\* an error that is not an ASCError: the TypeError of a rejected fetch, the
\* AbortError of rawRequest()'s timer
NativeError == [kind |-> "native", val |-> 0, code |-> "", status |-> 0]
\* new ValidationError(message, field)
ValidationError == Err("VALIDATION_ERROR", 400)

\* formatErrorResponse(error), error.message being m: an ASCError gives its
\* toJSON(), code and message without the status; another Error gives
\* INTERNAL_ERROR
formatErrorResponse(e, m) ==
  [success |-> FALSE,
   code |-> IF e.kind = "error" THEN e.code ELSE "INTERNAL_ERROR",
   message |-> m]

\* the upload operations a reserve response may list: each an offset and a
\* length
Operations ==
  {[offset |-> o, length |-> l] : o \in 0..(MaxFile - 1), l \in 1..MaxFile}
ReservePlans ==
  {NoPlan}
  \cup UNION {{[present |-> TRUE, ops |-> f] : f \in [1..k -> Operations]} :
               k \in 0..MaxOps}

\* what a rawRequest() can meet: a response, a rejected fetch, the abort
ChunkResponses ==
  {[kind |-> "http", status |-> st] : st \in {200, 403, 500}}
  \cup {[kind |-> "network", status |-> 0], [kind |-> "abort", status |-> 0]}

\* what the calls of an upload can meet in the executor
UploadResponses ==
  {r \in Responses :
     r.json /\ r.status \in {200, 404, 500} /\ (r.applied <=> r.status = 200)}

Min(a, b) == IF a < b THEN a ELSE b

\* fileBuffer.subarray(offset, offset + length): the bytes [from, to)
Subarray(len, op) ==
  [from |-> Min(op.offset, len), to |-> Min(op.offset + op.length, len)]

\* the size test passing whatever the length
MutSizeUnchecked(n) == TRUE

\* fileBuffer.length !== params.fileSize, negated
SizeMatches(n) == n = upSize

\* every response taken for a success
MutResponseAlwaysOk(r) == TRUE

\* uploadResponse.ok
ResponseOk(r) == r.status >= 200 /\ r.status <= 299

\* the loop over the operations ending after the first
MutLastAfterFirst(i, ops) == TRUE

\* the for-of loop over uploadOperations has no operation after the i-th
LastOperation(i, ops) == i >= Len(ops)

\* the catch of uploadScreenshot(): return formatErrorResponse(error)
Fail(e, m) ==
  /\ upc' = "done"
  /\ upThrown' = e
  /\ upResult' = formatErrorResponse(e, m)

\* client.rawRequest(operation.url, {method, headers, body: chunk}) for the
\* i-th operation of ops
SendChunk(i, ops) ==
  /\ upc' = "transfer"
  /\ upIdx' = i
  /\ upSendAt' = now
  /\ upChunks' = Append(upChunks, [idx |-> i] @@ Subarray(upFile, ops[i]))
  /\ UNCHANGED <<upThrown, upResult>>

\* uploadScreenshot(client, input): validateInput (fileSize a positive
\* integer), then fs.readFile is awaited
uploadScreenshot ==
  /\ upc = "idle"
  /\ \E n \in 0..MaxFile :
       /\ upSize' = n
       /\ IF n > 0
          THEN /\ upc' = "read"
               /\ UNCHANGED <<upThrown, upResult>>
          ELSE Fail(ValidationError, <<"File size must be positive">>)
  /\ UNCHANGED <<now, tmVars, callerVars, clVars, upFile, upOps, upIdx,
                 upSendAt, upChunks, upResps>>
  /\ UNCHANGED <<pgVars, fnVars>>

\* readFile settles: a failure gives FILE_READ_ERROR; a buffer of another
\* length than fileSize gives FILE_SIZE_MISMATCH; else client.post() starts
ReadDone ==
  /\ upc = "read"
  /\ \E n \in -1..MaxFile :
       /\ upFile' = n
       /\ IF n = -1
          THEN /\ Fail(Err("FILE_READ_ERROR", 400), <<"Failed to read file">>)
               /\ UNCHANGED <<now, tmVars, callerVars, clVars>>
          ELSE IF ~SizeMatches(n)
          THEN /\ Fail(Err("FILE_SIZE_MISMATCH", 400),
                       <<"File size mismatch", upSize, n>>)
               /\ UNCHANGED <<now, tmVars, callerVars, clVars>>
          ELSE /\ upc' = "reserve"
               /\ Request(ReserveCall, {"POST"})
               /\ UNCHANGED <<upThrown, upResult>>
  /\ UNCHANGED <<upSize, upOps, upIdx, upSendAt, upChunks, upResps>>
  /\ UNCHANGED <<pgVars, fnVars>>

\* client.post() settles, with the test for missing operations left out: the
\* loop over no operation is skipped and client.patch() starts
MutReserveDoneNoCheck ==
  /\ upc = "reserve"
  /\ pc[ReserveCall] = "done"
  /\ IF result[ReserveCall].kind = "error"
     THEN /\ Fail(result[ReserveCall], <<>>)
          /\ UNCHANGED <<upOps, upIdx, upSendAt, upChunks>>
          /\ UNCHANGED <<now, tmVars, callerVars, clVars>>
     ELSE \E plan \in ReservePlans :
            /\ upOps' = plan
            /\ IF Len(plan.ops) = 0
               THEN /\ upc' = "commit"
                    /\ Request(CommitCall, {"PATCH"})
                    /\ UNCHANGED <<upIdx, upSendAt, upChunks, upThrown,
                                   upResult>>
               ELSE /\ SendChunk(1, plan.ops)
                    /\ UNCHANGED <<now, tmVars, callerVars, clVars>>
  /\ UNCHANGED <<upSize, upFile, upResps>>
  /\ UNCHANGED <<pgVars, fnVars>>

\* client.post() settles: its error is returned formatted; a response
\* without operations gives UPLOAD_ERROR 500; else the first chunk is sent
ReserveDone ==
  /\ upc = "reserve"
  /\ pc[ReserveCall] = "done"
  /\ IF result[ReserveCall].kind = "error"
     THEN /\ Fail(result[ReserveCall], <<>>)
          /\ UNCHANGED <<upOps, upIdx, upSendAt, upChunks>>
     ELSE \E plan \in ReservePlans :
            /\ upOps' = plan
            /\ IF ~plan.present \/ Len(plan.ops) = 0
               THEN /\ Fail(Err("UPLOAD_ERROR", 500),
                            <<"No upload operations provided">>)
                    /\ UNCHANGED <<upIdx, upSendAt, upChunks>>
               ELSE SendChunk(1, plan.ops)
  /\ UNCHANGED <<now, tmVars, callerVars, clVars, upSize, upFile, upResps>>
  /\ UNCHANGED <<pgVars, fnVars>>

\* rawRequest() settles, with a response that is not ok answered by sending
\* the same chunk again
MutChunkDoneRetry ==
  /\ upc = "transfer"
  /\ \E r \in ChunkResponses :
       /\ upResps' = Append(upResps, r)
       /\ IF r.kind = "abort"
          THEN /\ now' = upSendAt + DEFAULT_TIMEOUT_MS
               /\ Fail(NativeError, <<"This operation was aborted">>)
               /\ UNCHANGED <<tmVars, callerVars, clVars, upIdx, upSendAt,
                              upChunks>>
          ELSE IF r.kind = "network"
          THEN /\ Fail(NativeError, <<"fetch failed">>)
               /\ UNCHANGED <<now, tmVars, callerVars, clVars, upIdx,
                              upSendAt, upChunks>>
          ELSE IF ~ResponseOk(r)
          THEN /\ Len(upChunks) < 2 * MaxOps
               /\ SendChunk(upIdx, upOps.ops)
               /\ UNCHANGED <<now, tmVars, callerVars, clVars>>
          ELSE IF ~LastOperation(upIdx, upOps.ops)
          THEN /\ SendChunk(upIdx + 1, upOps.ops)
               /\ UNCHANGED <<now, tmVars, callerVars, clVars>>
          ELSE /\ upc' = "commit"
               /\ Request(CommitCall, {"PATCH"})
               /\ UNCHANGED <<upIdx, upSendAt, upChunks, upThrown, upResult>>
  /\ UNCHANGED <<upSize, upFile, upOps>>
  /\ UNCHANGED <<pgVars, fnVars>>

\* rawRequest() settles: the abort after DEFAULT_TIMEOUT_MS and a rejected
\* fetch are thrown as they are; a response that is not ok gives
\* UPLOAD_ERROR with its status; else the next chunk is sent or, after the
\* last, client.patch() starts
ChunkDone ==
  /\ upc = "transfer"
  /\ \E r \in ChunkResponses :
       /\ upResps' = Append(upResps, r)
       /\ IF r.kind = "abort"
          THEN /\ now' = upSendAt + DEFAULT_TIMEOUT_MS
               /\ Fail(NativeError, <<"This operation was aborted">>)
               /\ UNCHANGED <<tmVars, callerVars, clVars, upIdx, upSendAt,
                              upChunks>>
          ELSE IF r.kind = "network"
          THEN /\ Fail(NativeError, <<"fetch failed">>)
               /\ UNCHANGED <<now, tmVars, callerVars, clVars, upIdx,
                              upSendAt, upChunks>>
          ELSE IF ~ResponseOk(r)
          THEN /\ Fail(Err("UPLOAD_ERROR", r.status),
                       <<"Chunk upload failed", r.status>>)
               /\ UNCHANGED <<now, tmVars, callerVars, clVars, upIdx,
                              upSendAt, upChunks>>
          ELSE IF ~LastOperation(upIdx, upOps.ops)
          THEN /\ SendChunk(upIdx + 1, upOps.ops)
               /\ UNCHANGED <<now, tmVars, callerVars, clVars>>
          ELSE /\ upc' = "commit"
               /\ Request(CommitCall, {"PATCH"})
               /\ UNCHANGED <<upIdx, upSendAt, upChunks, upThrown, upResult>>
  /\ UNCHANGED <<upSize, upFile, upOps>>
  /\ UNCHANGED <<pgVars, fnVars>>

\* client.patch() settles, a failed commit being followed by a DELETE of
\* the reserved screenshot that is sent and not awaited
MutCommitDoneDelete ==
  /\ upc = "commit"
  /\ pc[CommitCall] = "done"
  /\ IF result[CommitCall].kind = "error"
     THEN /\ Fail(result[CommitCall], <<>>)
          /\ sendLog' = Append(sendLog, now)
          /\ method' = [method EXCEPT ![CommitCall] = "DELETE"]
     ELSE /\ upc' = "done"
          /\ upResult' = [success |-> TRUE, code |-> "", message |-> <<>>]
          /\ UNCHANGED <<upThrown, sendLog, method>>
  /\ UNCHANGED <<now, tmVars, callerVars, timestamps, attempt, lastError,
                 wakeAt, sendAt, result, calls, sends, slots, sleeps,
                 tokCalls, only429, rl, met>>
  /\ UNCHANGED <<upSize, upFile, upOps, upIdx, upSendAt, upChunks, upResps>>
  /\ UNCHANGED <<pgVars, fnVars>>

\* client.patch() settles: its error is returned formatted, else success
CommitDone ==
  /\ upc = "commit"
  /\ pc[CommitCall] = "done"
  /\ IF result[CommitCall].kind = "error"
     THEN Fail(result[CommitCall], <<>>)
     ELSE /\ upc' = "done"
          /\ upResult' = [success |-> TRUE, code |-> "", message |-> <<>>]
          /\ UNCHANGED upThrown
  /\ UNCHANGED <<now, tmVars, callerVars, clVars, upSize, upFile, upOps,
                 upIdx, upSendAt, upChunks, upResps>>
  /\ UNCHANGED <<pgVars, fnVars>>

(* ------------------------------ paginate ------------------------------ *)

\* links.next absent from the response
NoCursor == [kind |-> "none", target |-> 0, limit |-> 0]

\* the query parameters at play: the server's cursor, a page size and one
\* more parameter of the caller's; a record of them maps each to its value,
\* 0 for a parameter that is absent
Keys == {"cursor", "limit", "sort"}
NoParams == [k \in Keys |-> 0]
\* the params a caller may pass
ParamSets == {f \in [Keys -> {0, 1}] : f["cursor"] = 0}

\* links.next of page i when the server has a page after it: a URL that
\* names page i + 1, absolute or relative, in its query string ("abs",
\* "rel"), with or without a page size of the server's choosing (limit 2
\* or 0), or a URL without a query string ("bare")
NextLinks(i) ==
  {[kind |-> k, target |-> i + 1, limit |-> l] :
     k \in {"abs", "rel"}, l \in {0, 2}}
  \cup {[kind |-> "bare", target |-> i + 1, limit |-> 0]}

\* the query parameters of a links.next: url.searchParams of an absolute
\* URL, URLSearchParams of what follows "?" in a relative one, none when
\* the URL has no "?"
SearchParams(c) ==
  IF c.kind \in {"abs", "rel"}
  THEN [k \in Keys |-> IF k = "cursor" THEN c.target
                       ELSE IF k = "limit" THEN c.limit ELSE 0]
  ELSE NoParams

\* the merge the other way round: the caller's params win over the
\* parameters of the next pointer
MutQueryParamsCallerWins(ps, c) ==
  [k \in Keys |-> IF ps[k] # 0 THEN ps[k] ELSE SearchParams(c)[k]]

\* queryParams of a turn of the loop: {...params}, then every parameter of
\* cursor written over it
QueryParams(ps, c) ==
  [k \in Keys |-> IF SearchParams(c)[k] # 0 THEN SearchParams(c)[k] ELSE ps[k]]

\* the pages a server may hold: each with its number of items and its
\* links.next; the last page has none
PageSets ==
  UNION {{f \in [1..k -> [n : 0..MaxPageItems,
                          next : {NoCursor} \cup UNION {NextLinks(i) : i \in 1..k}]] :
            \A i \in 1..k :
              IF i = k THEN f[i].next = NoCursor
              ELSE f[i].next \in NextLinks(i)} :
         k \in 1..MaxPages}

\* response.data of page i of pages: its items in server order
Data(pages, i) == [j \in 1..pages[i].n |-> <<i, j>>]

\* the page the next get() asks for: queryParams are the caller's params
\* with the query parameters of cursor merged in (new URL() for an absolute
\* URL, split("?") for a relative one); a cursor without "?" adds nothing,
\* which is the request of the first page
Target(c) == IF c.kind \in {"abs", "rel"} THEN c.target ELSE 1

\* maxItems && itemsYielded >= maxItems
CapReached(n) == maxItems # 0 /\ n >= maxItems

\* this.get(path, queryParams) of the next turn of the do-while loop
Fetch(i) ==
  /\ Len(pgFetches) < MaxFetches
  /\ pgc' = "fetch"
  /\ pgReq' = i
  /\ pgFetches' = Append(pgFetches, i)

\* yield item j of the page in hand
Yield(j) ==
  /\ pgc' = "yield"
  /\ pgPos' = j
  /\ pgOut' = Append(pgOut, Data(pgPages, pgReq)[j])

\* the for-of loop over response.data is over: cursor = response.links?.next
\* and the while (cursor) test
EndOfPage ==
  /\ cursor' = pgPages[pgReq].next
  /\ IF pgPages[pgReq].next # NoCursor
     THEN /\ Fetch(Target(pgPages[pgReq].next))
          /\ queryParams' = QueryParams(params, pgPages[pgReq].next)
          /\ UNCHANGED <<pgPos, pgOut>>
     ELSE /\ pgc' = "done"
          /\ UNCHANGED <<pgReq, pgPos, pgOut, pgFetches, queryParams>>

\* paginate(path, params, maxItems) up to its first get()
paginate ==
  /\ pgc = "idle"
  /\ pgPages' \in PageSets
  /\ maxItems' \in 0..MaxCap
  /\ params' \in ParamSets
  /\ queryParams' = params'
  /\ Fetch(1)
  /\ UNCHANGED <<cursor, pgPos, itemsYielded, pgOut, pgErr>>
  /\ UNCHANGED <<now, tmVars, callerVars, clVars, upVars, fnVars>>

\* get() throws: the error leaves paginate()
GetFailed ==
  /\ pgc = "fetch"
  /\ pgc' = "done"
  /\ pgErr' = TRUE
  /\ UNCHANGED <<pgPages, maxItems, cursor, pgReq, pgPos, itemsYielded, pgOut,
                 pgFetches, params, queryParams>>
  /\ UNCHANGED <<now, tmVars, callerVars, clVars, upVars, fnVars>>

\* get() returns the page asked for: its first item is yielded, or, with no
\* item, the loop goes on
GetDone ==
  /\ pgc = "fetch"
  /\ IF pgPages[pgReq].n > 0
     THEN /\ Yield(1)
          /\ UNCHANGED <<cursor, pgReq, pgFetches, queryParams>>
     ELSE EndOfPage
  /\ UNCHANGED <<pgPages, maxItems, itemsYielded, pgErr, params>>
  /\ UNCHANGED <<now, tmVars, callerVars, clVars, upVars, fnVars>>

\* the consumer asks for the next item: itemsYielded++, the cap test, then
\* the next item of the page or the end of the page
Resume ==
  /\ pgc = "yield"
  /\ itemsYielded' = itemsYielded + 1
  /\ IF CapReached(itemsYielded + 1)
     THEN /\ pgc' = "done"
          /\ UNCHANGED <<cursor, pgReq, pgPos, pgOut, pgFetches, queryParams>>
     ELSE IF pgPos < pgPages[pgReq].n
     THEN /\ Yield(pgPos + 1)
          /\ UNCHANGED <<cursor, pgReq, pgFetches, queryParams>>
     ELSE EndOfPage
  /\ UNCHANGED <<pgPages, maxItems, pgErr, params>>
  /\ UNCHANGED <<now, tmVars, callerVars, clVars, upVars, fnVars>>

(* --------------------------- specifications --------------------------- *)

\* the client's locals before any logical call
CallersIdle ==
  /\ pc = [p \in Procs |-> "idle"]
  /\ tokWait = [p \in Procs |-> 0]
  /\ tokRes = [p \in Procs |-> NoRes]
  /\ attempt = [p \in Procs |-> 0]
  /\ lastError = [p \in Procs |-> NoRes]
  /\ wakeAt = [p \in Procs |-> 0]
  /\ sendAt = [p \in Procs |-> 0]
  /\ result = [p \in Procs |-> NoRes]
  /\ calls = [p \in Procs |-> 0]
  /\ sends = [p \in Procs |-> 0]
  /\ slots = [p \in Procs |-> 0]
  /\ sleeps = [p \in Procs |-> <<>>]
  /\ tokCalls = [p \in Procs |-> 0]
  /\ only429 = [p \in Procs |-> TRUE]
  /\ rl = [p \in Procs |-> NoLimit]
  /\ method = [p \in Procs |-> ""]
  /\ met = [p \in Procs |-> <<>>]

\* no uploadScreenshot() call yet
UploadIdle ==
  /\ upc = "idle"
  /\ upSize = 0
  /\ upFile = -1
  /\ upOps = NoPlan
  /\ upIdx = 0
  /\ upSendAt = 0
  /\ upThrown = NoRes
  /\ upResult = NoReturn
  /\ upChunks = <<>>
  /\ upResps = <<>>

\* no failure built, nothing parsed; the TokenManager at hand was made from
\* a config with one key source
ErrorsIdle ==
  /\ raised = NoRaise
  /\ apiError = NoParse
  /\ config = NoConfig

\* no paginate() call yet
PaginateIdle ==
  /\ pgc = "idle"
  /\ pgPages = <<>>
  /\ maxItems = 0
  /\ cursor = NoCursor
  /\ pgReq = 0
  /\ pgPos = 0
  /\ itemsYielded = 0
  /\ pgOut = <<>>
  /\ pgFetches = <<>>
  /\ pgErr = FALSE
  /\ params = NoParams
  /\ queryParams = NoParams

\* new TokenManager(config): nothing cached, no key loaded
TokenFresh ==
  /\ keySource \in {"path", "content"}
  /\ cachedToken = 0
  /\ tokenExpiresAt = 0
  /\ privateKey = FALSE
  /\ pendingTokenGeneration = 0
  /\ gen = [g \in Gens |-> [st |-> "unused", iat |-> 0]]
  /\ invalidated = {}
  /\ destroys = 0

\* the state after new TokenManager(config): the constructor accepts a path
\* or inline content as the key source
TokenInit ==
  /\ now = StartMs
  /\ TokenFresh
  /\ CallersIdle
  /\ UploadIdle
  /\ PaginateIdle
  /\ ErrorsIdle
  /\ timestamps = <<>>
  /\ sendLog = <<>>

\* the token manager under getToken() callers alone
TokenCallersNext ==
  \/ \E p \in Procs : CallGetToken(p)
  \/ \E p \in Procs : Return(p)
  \/ \E g \in Gens : LoadKeyOk(g)
  \/ \E g \in Gens : LoadKeyFail(g)
  \/ \E g \in Gens : StartSign(g)
  \/ \E g \in Gens : SignOk(g)
  \/ \E g \in Gens : SignFail(g)
  \/ TokenTick

SpecTokenCallers == TokenInit /\ [][TokenCallersNext]_vars

\* the token manager under getToken() and destroy()
TokenNext ==
  \/ \E p \in Procs : CallGetToken(p)
  \/ \E p \in Procs : Return(p)
  \/ \E g \in Gens : LoadKeyOk(g)
  \/ \E g \in Gens : LoadKeyFail(g)
  \/ \E g \in Gens : StartSign(g)
  \/ \E g \in Gens : SignOk(g)
  \/ \E g \in Gens : SignFail(g)
  \/ destroy
  \/ TokenTick

SpecToken == TokenInit /\ [][TokenNext]_vars

\* the client after new AppStoreConnectClient(tokenManager), or after
\* PriorCalls (or one fewer) logical calls that each succeeded on the first
\* attempt: one at StartMs, the others in a burst PriorGapMs later, with the
\* token the first of them signed in the cache
ClientInit ==
  /\ CallersIdle
  /\ UploadIdle
  /\ PaginateIdle
  /\ ErrorsIdle
  /\ \/ /\ now = StartMs
        /\ TokenFresh
        /\ timestamps = <<>>
        /\ sendLog = <<>>
     \/ /\ now = StartMs + 2 * PriorGapMs
        /\ \E n \in {PriorCalls - 1, PriorCalls} :
             /\ timestamps = [i \in 1..n |->
                               IF i = 1 THEN StartMs ELSE StartMs + PriorGapMs]
             /\ sendLog = timestamps
        /\ keySource \in {"path", "content"}
        /\ cachedToken = 1
        /\ tokenExpiresAt = StartMs \div 1000 + TOKEN_LIFETIME_SECONDS
        /\ privateKey = TRUE
        /\ pendingTokenGeneration = 0
        /\ gen = [g \in Gens |->
                   IF g = 1 THEN [st |-> "ok", iat |-> StartMs \div 1000]
                   ELSE [st |-> "unused", iat |-> 0]]
        /\ invalidated = {}
        /\ destroys = 0

\* the steps of one logical call against a server answering within rs
ClientStep(p, rs, ms) ==
  \/ Request(p, ms) /\ UNCHANGED <<upVars, pgVars, fnVars>>
  \/ RateWake(p)
  \/ Exec(p)
  \/ Send(p)
  \/ TokenFailed(p)
  \/ Respond(p, rs)
  \/ RetryWake(p)
  \/ Finish(p)

TokenStep(g) ==
  \/ LoadKeyOk(g)
  \/ LoadKeyFail(g)
  \/ StartSign(g)
  \/ SignOk(g)
  \/ SignFail(g)

\* the token manager under one getToken() caller and destroy()
DestroyNext ==
  \/ CallGetToken(1)
  \/ Return(1)
  \/ \E g \in Gens : TokenStep(g)
  \/ destroy
  \/ TokenTick

SpecDestroy == TokenInit /\ [][DestroyNext]_vars

\* one caller, one logical call after the other, any response
Next ==
  \/ ClientStep(1, Responses, Methods)
  \/ \E g \in Gens : TokenStep(g)
  \/ ClientTick

Spec == ClientInit /\ [][Next]_vars

\* concurrent logical calls against a server that answers 200 or 500
ConcResponses ==
  {r \in Responses :
     r.json /\ r.status \in {200, 500} /\ (r.applied <=> r.status = 200)}

ConcNext ==
  \/ \E p \in Procs : ClientStep(p, ConcResponses, {"GET"})
  \/ \E g \in Gens : TokenStep(g)
  \/ ClientTick

SpecConc == ClientInit /\ [][ConcNext]_vars

\* the executor's part of the logical call p of an upload
UploadCallStep(p) ==
  \/ RateWake(p)
  \/ Exec(p)
  \/ Send(p)
  \/ TokenFailed(p)
  \/ Respond(p, UploadResponses)
  \/ RetryWake(p)

\* one uploadScreenshot() call
UploadNext ==
  \/ uploadScreenshot
  \/ ReadDone
  \/ ReserveDone
  \/ ChunkDone
  \/ CommitDone
  \/ \E p \in {ReserveCall, CommitCall} : UploadCallStep(p)
  \/ \E g \in Gens : TokenStep(g)
  \/ ClientTick

SpecUpload == ClientInit /\ [][UploadNext]_vars

\* one paginate() call over the pages of one server
PaginateNext ==
  \/ paginate
  \/ GetFailed
  \/ GetDone
  \/ Resume

SpecPaginate == TokenInit /\ [][PaginateNext]_vars

\* concurrent logical calls against a server that answers 200 or 500, or
\* not at all
TimeoutResponses ==
  {r \in Responses :
     \/ r.kind = "http" /\ r.json /\ r.status \in {200, 500}
          /\ (r.applied <=> r.status = 200)
     \/ r.kind = "abort" /\ ~r.applied}

TimeoutNext ==
  \/ \E p \in Procs : ClientStep(p, TimeoutResponses, {"GET"})
  \/ \E g \in Gens : TokenStep(g)
  \/ ClientTick

SpecTimeout == ClientInit /\ [][TimeoutNext]_vars

\* two concurrent callers of enforceRateLimit() against a server that answers
\* 200; timers fire once their time has come
LimiterResponses ==
  {r \in Responses : r.kind = "http" /\ r.status = 200 /\ r.json /\ r.applied}

LimiterCallers == {1, 2}

LimiterNext ==
  \/ \E p \in LimiterCallers : ClientStep(p, LimiterResponses, {"GET"})
  \/ \E g \in Gens : TokenStep(g)
  \/ ClientTick

SpecLimiter ==
  /\ ClientInit
  /\ [][LimiterNext]_vars
  /\ WF_vars(ClientTick)
  /\ \A p \in LimiterCallers : WF_vars(RateWake(p))

\* one caller of get(), any response, where every step that can be taken is
\* taken in the end: the fetch settles or its timer aborts it, the key
\* loading and the signing settle, timers fire
FairCallers == {1}

FairNext ==
  \/ \E p \in FairCallers : ClientStep(p, Responses, {"GET"})
  \/ \E g \in Gens : TokenStep(g)
  \/ ClientTick

SpecFair ==
  /\ ClientInit
  /\ [][FairNext]_vars
  /\ \A p \in FairCallers : WF_vars(ClientStep(p, Responses, {"GET"}))
  /\ \A g \in Gens : WF_vars(TokenStep(g))
  /\ WF_vars(ClientTick)

\* the moment the cached token has one second left before it falls into
\* the refresh buffer
AgedMs ==
  StartMs + (TOKEN_LIFETIME_SECONDS - TOKEN_REFRESH_BUFFER_SECONDS) * 1000
    - PriorGapMs

\* a client whose cached token, signed at StartMs, is about to fall into the
\* refresh buffer; the window is empty or holds a recent burst of calls
RefreshInit ==
  /\ CallersIdle
  /\ UploadIdle
  /\ PaginateIdle
  /\ ErrorsIdle
  /\ now = AgedMs
  /\ \/ timestamps = <<>>
     \/ \E n \in {PriorCalls - 1, PriorCalls} :
          timestamps = [i \in 1..n |-> AgedMs - PriorGapMs]
  /\ sendLog = timestamps
  /\ keySource \in {"path", "content"}
  /\ cachedToken = 1
  /\ tokenExpiresAt = StartMs \div 1000 + TOKEN_LIFETIME_SECONDS
  /\ privateKey = TRUE
  /\ pendingTokenGeneration = 0
  /\ gen = [g \in Gens |->
              IF g = 1 THEN [st |-> "ok", iat |-> StartMs \div 1000]
              ELSE [st |-> "unused", iat |-> 0]]
  /\ invalidated = {}
  /\ destroys = 0

\* one caller's GET calls; the key is loaded, so a signing has no
\* loadPrivateKey() step
RefreshNext ==
  \/ \E p \in FairCallers : ClientStep(p, Responses, {"GET"})
  \/ \E g \in Gens : SignOk(g) \/ SignFail(g)
  \/ ClientTick

SpecRefresh == RefreshInit /\ [][RefreshNext]_vars

\* responses of every class of status, each with a body that parses as
\* JSON and with one that does not
BodyResponses ==
  {[kind |-> "http", status |-> st, retryAfter |-> 0, json |-> j,
    applied |-> st < 300] : st \in {200, 201, 204, 400, 404, 429, 500},
                            j \in BOOLEAN}

BodyNext ==
  \/ \E p \in FairCallers : ClientStep(p, BodyResponses, {"GET"})
  \/ \E g \in Gens : TokenStep(g)
  \/ ClientTick

SpecBody == ClientInit /\ [][BodyNext]_vars

\* failures built from any text
SanitizeInit ==
  /\ now = StartMs
  /\ TokenFresh
  /\ keySource = "content"
  /\ CallersIdle
  /\ UploadIdle
  /\ PaginateIdle
  /\ timestamps = <<>>
  /\ sendLog = <<>>
  /\ raised \in {[NoRaise EXCEPT !.text = t] : t \in Texts}
  /\ apiError = NoParse
  /\ config = NoConfig

SanitizeNext == NewASCError \/ FormatError

SpecSanitize == SanitizeInit /\ [][SanitizeNext]_vars

\* parseAPIError() on any status that reaches it and any errors array
ParseInit ==
  /\ now = StartMs
  /\ TokenFresh
  /\ keySource = "content"
  /\ CallersIdle
  /\ UploadIdle
  /\ PaginateIdle
  /\ timestamps = <<>>
  /\ sendLog = <<>>
  /\ raised = NoRaise
  /\ apiError \in {[NoParse EXCEPT !.status = s, !.given = TRUE, !.errors = es] :
                     s \in ParsedStatuses, es \in ErrorLists}
                  \cup {[NoParse EXCEPT !.status = s] : s \in ParsedStatuses}
  /\ config = NoConfig

SpecParse == ParseInit /\ [][Parse]_vars

\* the constructor on any config
ConstructInit ==
  /\ now = StartMs
  /\ keySource = "none"
  /\ cachedToken = 0
  /\ tokenExpiresAt = 0
  /\ privateKey = FALSE
  /\ pendingTokenGeneration = 0
  /\ gen = [g \in Gens |-> [st |-> "unused", iat |-> 0]]
  /\ invalidated = {}
  /\ destroys = 0
  /\ CallersIdle
  /\ UploadIdle
  /\ PaginateIdle
  /\ timestamps = <<>>
  /\ sendLog = <<>>
  /\ raised = NoRaise
  /\ apiError = NoParse
  /\ config \in Configs

SpecConstruct == ConstructInit /\ [][Construct]_vars

(* ------------------------------ claims -------------------------------- *)

\* C1: when several callers call getToken() while no valid token is cached
\* (no destroy() in between), one signing is in flight, it is the one every
\* waiting caller awaits, and the callers that awaited the same signing hold
\* the same result: the token of that signing when it succeeded.
C1_SingleFlight ==
  /\ \A p \in Procs : pc[p] = "tok_wait" => InFlight = {tokWait[p]}
  /\ \A p, q \in Procs :
       (pc[p] = "tok_done" /\ pc[q] = "tok_done"
          /\ tokWait[p] # 0 /\ tokWait[p] = tokWait[q])
       => tokRes[p] = tokRes[q]
  /\ \A p \in Procs :
       (pc[p] = "tok_done" /\ tokWait[p] # 0 /\ tokRes[p].kind = "token")
       => tokRes[p].val = tokWait[p]

\* two callers that waited on the same signing both hold its token
C1_Witness ==
  \E p, q \in Procs :
    /\ p # q
    /\ pc[p] = "tok_done" /\ pc[q] = "tok_done"
    /\ tokWait[p] # 0 /\ tokWait[p] = tokWait[q]
    /\ tokRes[p].kind = "token" /\ tokRes[q] = tokRes[p]

\* C2: under any interleaving of getToken() and destroy(), at most one
\* signing (generateToken) is in progress.
C2_AtMostOneSigning == Cardinality(InFlight) <= 1

\* C3: a refresh that was in flight when destroy() ran is not reused: its
\* token never becomes the cached token.
C3_InvalidatedNotCached == cachedToken \notin invalidated

\* the timestamps of the rate window younger than the window length
FreshNow == Fresh(timestamps, now)

\* C4: under any interleaving of concurrent logical calls, the rate window
\* holds at most MAX_REQUESTS_PER_WINDOW timestamps younger than
\* RATE_LIMIT_WINDOW_MS.
C4_WindowWithinCap == Len(FreshNow) <= MAX_REQUESTS_PER_WINDOW

\* C5: every network attempt of a logical call, retries included, has its
\* own recorded timestamp: a call never has more attempts than slots.
C5_SlotPerAttempt == \A p \in Procs : sends[p] <= slots[p]

\* C6: no interval of RATE_LIMIT_WINDOW_MS holds more than
\* MAX_REQUESTS_PER_WINDOW network attempts, retries counted.
C6_SendsWithinCap ==
  \A i \in 1..Len(sendLog) :
    Cardinality({j \in 1..Len(sendLog) :
                   /\ sendLog[j] >= sendLog[i]
                   /\ sendLog[j] - sendLog[i] < RATE_LIMIT_WINDOW_MS})
      <= MAX_REQUESTS_PER_WINDOW

C8_TimeoutRetried ==
  \A p \in Procs :
    (pc[p] = "done" /\ result[p].code = "TIMEOUT") => sends[p] = MAX_RETRIES

\* C9: a ConfigError met while acquiring the credential ends the call at
\* once: no sleep, no second getToken().
C9_ConfigErrorFatal ==
  \A p \in Procs :
    lastError[p].code = "CONFIG_ERROR" =>
      /\ pc[p] = "done"
      /\ sleeps[p] = <<>>
      /\ tokCalls[p] = 1

\* C10: a logical call makes at most MAX_RETRIES network attempts, and a
\* call every attempt of which met a 429 ends after exactly MAX_RETRIES
\* attempts with RateLimitError.
C10_AttemptCap ==
  \A p \in Procs :
    /\ sends[p] <= MAX_RETRIES
    /\ (pc[p] = "done" /\ only429[p] /\ sends[p] > 0) =>
         /\ sends[p] = MAX_RETRIES
         /\ result[p].code = "RATE_LIMIT"

\* a call has met three 429 responses and failed with RateLimitError
C10_Witness ==
  \E p \in Procs :
    /\ pc[p] = "done"
    /\ only429[p]
    /\ sends[p] = MAX_RETRIES
    /\ result[p].code = "RATE_LIMIT"
    /\ Len(sleeps[p]) = MAX_RETRIES

\* the attempt met a response with a status in [400,500) other than 429
ClientError(r) ==
  r.kind = "http" /\ r.status >= 400 /\ r.status < 500 /\ r.status # 429

\* the attempt met a 5xx response or a network failure
ServerFailure(r) ==
  r.kind = "network" \/ (r.kind = "http" /\ r.status >= 500)

\* the attempt met a 429 response
TooMany(r) == r.kind = "http" /\ r.status = 429

\* C11: an attempt that meets a response with a status in [400,500) other
\* than 429 is the last of its call: no sleep and no attempt follows it, and
\* the call ends with the typed failure of that status (one attempt and no
\* sleep at all when it is the first).
C11_ClientErrorNotRetried ==
  \A p \in Procs :
    \A i \in 1..Len(met[p]) :
      ClientError(met[p][i]) =>
        /\ pc[p] = "done"
        /\ Len(met[p]) = i
        /\ Len(sleeps[p]) = i - 1
        /\ result[p] = parseAPIError(met[p][i].status)

\* C12: a call whose attempts meet a 5xx or a network failure k times and
\* then a success, k <= 2, succeeds with k + 1 attempts, and its sleeps are
\* INITIAL_RETRY_DELAY_MS * 2^(i-1) for i = 1..k.
C12_BackoffThenSuccess ==
  \A p \in Procs :
    LET n == Len(met[p]) IN
      (/\ n >= 1
       /\ \A i \in 1..(n - 1) : ServerFailure(met[p][i])
       /\ Outcome(met[p][n]) = Value)
      => /\ pc[p] = "done"
         /\ result[p] = Value
         /\ n - 1 <= MAX_RETRIES - 1
         /\ sends[p] = n
         /\ sleeps[p] = [i \in 1..(n - 1) |->
                          INITIAL_RETRY_DELAY_MS * 2 ^ (i - 1)]

\* a call succeeded on its third attempt after two server failures
C12_Witness ==
  \E p \in Procs :
    /\ pc[p] = "done"
    /\ result[p] = Value
    /\ Len(met[p]) = 3
    /\ met[p][1].status = 500
    /\ met[p][2].kind = "network"
    /\ sleeps[p] = <<1000, 2000>>

\* C13: when all MAX_RETRIES attempts of a call meet a 5xx or a network
\* failure, the call has slept 1000 ms and 2000 ms between them, does not
\* sleep after the last, and ends with the failure of the last attempt.
C13_ExhaustedThrowsLast ==
  \A p \in Procs :
    (/\ Len(met[p]) = MAX_RETRIES
     /\ \A i \in 1..MAX_RETRIES : ServerFailure(met[p][i]))
    => /\ pc[p] = "done"
       /\ sends[p] = MAX_RETRIES
       /\ sleeps[p] = <<1000, 2000>>
       /\ result[p] = Outcome(met[p][MAX_RETRIES])

\* a call met a network failure, a network failure and a 500, and ended
\* with the failure of the 500
C13_Witness ==
  \E p \in Procs :
    /\ pc[p] = "done"
    /\ Len(met[p]) = MAX_RETRIES
    /\ met[p][1].kind = "network"
    /\ met[p][2].kind = "network"
    /\ met[p][3].status = 500
    /\ result[p] = Err("API_ERROR", 500)
    /\ Len(sleeps[p]) = 2

\* the seconds a 429 response asks for: its Retry-After, 60 without one
Declared(r) == IF r.retryAfter = 0 THEN 60 ELSE r.retryAfter

\* C14 as stated: after every attempt that meets a 429 the call sleeps
\* Retry-After * 1000 ms (60 s without the header) and then makes another
\* attempt.
C14_RetryAfterAlwaysResent ==
  \A p \in Procs :
    \A i \in 1..Len(met[p]) :
      TooMany(met[p][i]) =>
        /\ Len(sleeps[p]) >= i
        /\ sleeps[p][i] = Declared(met[p][i]) * 1000
        /\ pc[p] = "done" => Len(met[p]) > i

\* C14: after every attempt that meets a 429 the call sleeps
\* Retry-After * 1000 ms (60 s without the header), and when that attempt
\* was not the last of the MAX_RETRIES the call then makes another attempt.
C14_RetryAfterSleep ==
  \A p \in Procs :
    \A i \in 1..Len(met[p]) :
      TooMany(met[p][i]) =>
        /\ Len(sleeps[p]) >= i
        /\ sleeps[p][i] = Declared(met[p][i]) * 1000
        /\ (pc[p] = "done" /\ i < MAX_RETRIES) => Len(met[p]) > i

\* a call met a 429 with Retry-After 2, slept 2000 ms and sent again
C14_Witness ==
  \E p \in Procs :
    /\ Len(met[p]) >= 1
    /\ TooMany(met[p][1])
    /\ met[p][1].retryAfter = 2
    /\ sleeps[p][1] = 2000
    /\ sends[p] = 2

\* C15: a request with a mutating method that the server has received and
\* applied is never sent again.
C15_NoDuplicateSideEffect ==
  \A p \in Procs :
    method[p] \in {"POST", "PATCH", "DELETE"} =>
      \A i \in 1..Len(met[p]) :
        met[p][i].applied =>
          /\ pc[p] # "fetch"
          /\ \A j \in (i + 1)..Len(met[p]) : met[p][j].kind = "token"

\* the cached token expires more than the refresh buffer from now
CachedFresh ==
  cachedToken # 0 /\ tokenExpiresAt - NowSec > TOKEN_REFRESH_BUFFER_SECONDS

\* C16: while the cached token's expiry is more than
\* TOKEN_REFRESH_BUFFER_SECONDS after the current time, no step starts a
\* signing, and a caller that calls getToken() leaves it at once with the
\* cached token, which stays cached with its expiry.
C16_NoSigningWhileFresh ==
  [][CachedFresh =>
       /\ \A g \in Gens : gen[g].st = "unused" => gen'[g].st = "unused"
       /\ \A p \in Procs :
            (pc[p] \notin {"tok_wait", "tok_done"}
               /\ pc'[p] \in {"tok_wait", "tok_done"})
            => /\ pc'[p] = "tok_done"
               /\ tokRes'[p] = Tok(cachedToken)
               /\ cachedToken' = cachedToken
               /\ tokenExpiresAt' = tokenExpiresAt]_vars

\* a caller was handed the cached token of a signing it did not wait for
C16_Witness ==
  \E p \in Procs :
    /\ pc[p] = "tok_done"
    /\ tokWait[p] = 0
    /\ CachedFresh
    /\ tokRes[p] = Tok(cachedToken)

\* C17: within one logical call the rate-limiter slot is acquired before
\* getToken() is called, and an attempt is sent only after its getToken()
\* has returned a token: nothing is sent or asked of the token manager while
\* the call waits for its slot, every send has its own completed getToken(),
\* and a fetch in flight carries the token that getToken() returned.
C17_SlotTokenSend ==
  \A p \in Procs :
    /\ pc[p] \in {"idle", "rl_sleep"} => tokCalls[p] = 0 /\ sends[p] = 0
    /\ tokCalls[p] > 0 => slots[p] >= 1
    /\ sends[p] <= tokCalls[p]
    /\ pc[p] \in {"tok_wait", "tok_done"} => sends[p] < tokCalls[p]
    /\ pc[p] = "fetch" => tokRes[p].kind = "token"

\* a call took its slot, then waited for a signing, and has sent its attempt
C17_Witness ==
  \E p \in Procs :
    /\ pc[p] = "fetch"
    /\ slots[p] = 1
    /\ tokCalls[p] = 1
    /\ sends[p] = 1
    /\ tokWait[p] # 0
    /\ tokRes[p] = Tok(tokWait[p])

\* C18: an upload whose file length differs from the declared fileSize
\* ends with FILE_SIZE_MISMATCH and has made no network call: no logical
\* call was started, so no slot was taken, no token asked for and nothing
\* sent, and no chunk was transferred.
C18_SizeMismatchNoNetwork ==
  (upc = "done" /\ upFile # -1 /\ upFile # upSize) =>
    /\ upThrown = Err("FILE_SIZE_MISMATCH", 400)
    /\ upResult.code = "FILE_SIZE_MISMATCH"
    /\ ~upResult.success
    /\ upChunks = <<>>
    /\ sendLog = timestamps
    /\ pendingTokenGeneration = 0
    /\ \A p \in Procs :
         /\ pc[p] = "idle"
         /\ calls[p] = 0
         /\ slots[p] = 0
         /\ tokCalls[p] = 0
         /\ sends[p] = 0

\* an upload of a file shorter than declared has ended
C18_Witness ==
  /\ upc = "done"
  /\ upFile # -1
  /\ upFile < upSize
  /\ upResult.code = "FILE_SIZE_MISMATCH"

\* the transfer returned a response with a 2xx status
Succeeded(r) == r.kind = "http" /\ r.status \in 200..299

\* C19: the phases of an upload are ordered: a chunk is transferred only
\* after the reserve call returned a value, the chunks are transferred one
\* at a time in the order of the reserve response, each after the one before
\* it returned a success, and the commit call starts only after every
\* listed transfer returned a success.
C19_PhasesInOrder ==
  /\ upChunks # <<>> =>
       /\ pc[ReserveCall] = "done"
       /\ result[ReserveCall] = Value
       /\ upOps.present
  /\ \A i \in 1..Len(upChunks) :
       /\ i <= Len(upOps.ops)
       /\ upChunks[i] = [idx |-> i] @@ Subarray(upFile, upOps.ops[i])
  /\ IF upc = "transfer"
     THEN Len(upChunks) = Len(upResps) + 1
     ELSE Len(upChunks) = Len(upResps)
  /\ \A i \in 1..(Len(upChunks) - 1) : Succeeded(upResps[i])
  /\ (calls[CommitCall] > 0 \/ upc = "commit") =>
       /\ Len(upOps.ops) >= 1
       /\ Len(upResps) = Len(upOps.ops)
       /\ \A i \in 1..Len(upResps) : Succeeded(upResps[i])

\* an upload of MaxOps chunks was committed
C19_Witness ==
  /\ upc = "done"
  /\ upResult.success
  /\ Len(upOps.ops) = MaxOps
  /\ Len(upChunks) = MaxOps
  /\ sends[CommitCall] >= 1

\* C20: when a chunk transfer returns a response that is not a success, the
\* upload ends with UPLOAD_ERROR and that response's status; no later chunk
\* is transferred and the commit call is never started.
C20_ChunkFailureAborts ==
  \A i \in 1..Len(upResps) :
    (upResps[i].kind = "http" /\ ~Succeeded(upResps[i])) =>
      /\ upc = "done"
      /\ upThrown = Err("UPLOAD_ERROR", upResps[i].status)
      /\ upResult = [success |-> FALSE, code |-> "UPLOAD_ERROR",
                      message |-> <<"Chunk upload failed", upResps[i].status>>]
      /\ Len(upChunks) = i
      /\ calls[CommitCall] = 0
      /\ sends[CommitCall] = 0
      /\ pc[CommitCall] = "idle"

\* the first of two listed transfers returned 403 and the upload ended
C20_Witness ==
  /\ upc = "done"
  /\ Len(upOps.ops) = 2
  /\ Len(upChunks) = 1
  /\ upResps = <<[kind |-> "http", status |-> 403]>>
  /\ upResult.code = "UPLOAD_ERROR"

\* C21: an upload that fails in one of its phases (the reserve call was
\* started) returns a failure with code UPLOAD_ERROR.
C21_PhaseFailureIsUploadError ==
  (upc = "done" /\ ~upResult.success /\ calls[ReserveCall] > 0) =>
    upResult.code = "UPLOAD_ERROR"

\* C22: when the transfer phase of an upload is over, the byte ranges
\* transferred partition the file: every byte of [0, fileSize) lies in
\* exactly one of them.
C22_RangesPartition ==
  (upc = "commit" \/ calls[CommitCall] > 0) =>
    \A b \in 0..(upFile - 1) :
      Cardinality({i \in 1..Len(upChunks) :
                     upChunks[i].from <= b /\ b < upChunks[i].to}) = 1

\* C23: when the reserve response has no upload operations, absent or
\* empty, the upload ends with UPLOAD_ERROR, no chunk is transferred and the
\* commit call is never started.
C23_NoOperationsFails ==
  (/\ upc \notin {"idle", "read", "reserve"}
   /\ pc[ReserveCall] = "done"
   /\ result[ReserveCall] = Value
   /\ (~upOps.present \/ Len(upOps.ops) = 0))
  => /\ upc = "done"
     /\ upThrown = Err("UPLOAD_ERROR", 500)
     /\ upResult.code = "UPLOAD_ERROR"
     /\ ~upResult.success
     /\ upChunks = <<>>
     /\ calls[CommitCall] = 0
     /\ pc[CommitCall] = "idle"

\* the reserve call returned an empty list of operations and the upload
\* ended
C23_Witness ==
  /\ upc = "done"
  /\ result[ReserveCall] = Value
  /\ upOps.present
  /\ upOps.ops = <<>>
  /\ upResult.code = "UPLOAD_ERROR"

\* what the executor and the token manager keep
ExecutorState ==
  <<timestamps, sendLog, slots, tokCalls, sends, tokRes, cachedToken,
    tokenExpiresAt, privateKey, pendingTokenGeneration, gen>>

\* C24: a chunk transfer goes around the executor: the step that sends a
\* chunk, and every step of the transfer phase short of starting the commit
\* call, takes no slot, calls no getToken(), sends nothing through the
\* executor and leaves the rate window and the token cache as they are; and
\* no operation is transferred twice.
C24_ChunksBypassExecutor ==
  /\ [][((Len(upChunks') > Len(upChunks))
           \/ (upc = "transfer" /\ upc' # "commit"))
        => ExecutorState' = ExecutorState]_vars
  /\ [](\A i, j \in 1..Len(upChunks) :
          upChunks[i].idx = upChunks[j].idx => i = j)

\* the second chunk of an upload is in flight; the executor has served the
\* reserve call alone
C24_Witness ==
  /\ upc = "transfer"
  /\ Len(upChunks) = 2
  /\ Len(upResps) = 1
  /\ slots[ReserveCall] = 1
  /\ slots[CommitCall] = 0
  /\ tokCalls[CommitCall] = 0
  /\ sends[ReserveCall] = 1
  /\ sendLog = timestamps

\* every item of every page of pages, in server order
RECURSIVE AllItems(_, _)
AllItems(pages, k) ==
  IF k = 0 THEN <<>> ELSE AllItems(pages, k - 1) \o Data(pages, k)

\* the items the server holds for the paginate() call
Total == AllItems(pgPages, Len(pgPages))

\* s is the beginning of t
IsPrefix(s, t) == Len(s) <= Len(t) /\ s = SubSeq(t, 1, Len(s))

\* C25: paginate() without a cap yields the items of the pages in server
\* order and fetches each page once, in order: what it has yielded is at any
\* time the beginning of the server's items, the i-th fetch asks for page i,
\* and when it ends without an error it has yielded every item with one
\* fetch per page.
C25_AllPagesInOrder ==
  (pgc # "idle" /\ maxItems = 0) =>
    /\ IsPrefix(pgOut, Total)
    /\ \A i \in 1..Len(pgFetches) : pgFetches[i] = i
    /\ (pgc = "done" /\ ~pgErr) =>
         /\ pgOut = Total
         /\ Len(pgFetches) = Len(pgPages)

\* C26: paginate() with a cap m >= 1 yields the first min(m, total) items:
\* what it has yielded is at any time the beginning of the server's items,
\* never more than m, no page is being fetched once m items are yielded, and
\* when it ends without an error it has yielded min(m, total) items.
C26_CapRespected ==
  (pgc # "idle" /\ maxItems >= 1) =>
    /\ IsPrefix(pgOut, Total)
    /\ Len(pgOut) <= maxItems
    /\ pgc = "fetch" => Len(pgOut) < maxItems
    /\ (pgc = "done" /\ ~pgErr) => Len(pgOut) = Min(maxItems, Len(Total))

\* the attempt of p in flight ends in this step with the abort of its timer
TimedOut(p) ==
  /\ pc[p] = "fetch"
  /\ Len(met'[p]) = Len(met[p]) + 1
  /\ met'[p][Len(met'[p])].kind = "abort"

\* C27: the step in which the timer of one attempt aborts its fetch changes
\* neither the cached token and its expiry nor the rate window, and leaves
\* every other logical call where it is: its position, its fetch in flight,
\* its attempt counter, its last error and its result.
C27_TimeoutFrame ==
  [][\A p \in Procs :
       TimedOut(p) =>
         /\ cachedToken' = cachedToken
         /\ tokenExpiresAt' = tokenExpiresAt
         /\ timestamps' = timestamps
         /\ \A q \in Procs \ {p} :
              /\ pc'[q] = pc[q]
              /\ sendAt'[q] = sendAt[q]
              /\ attempt'[q] = attempt[q]
              /\ lastError'[q] = lastError[q]
              /\ result'[q] = result[q]
              /\ met'[q] = met[q]]_vars

\* one call has ended with TIMEOUT while another, sent later and on its
\* second attempt, still has its fetch in flight
C27_Witness ==
  \E p, q \in Procs :
    /\ p # q
    /\ pc[p] = "done"
    /\ result[p].code = "TIMEOUT"
    /\ pc[q] = "fetch"
    /\ attempt[q] = 1
    /\ sendAt[q] > sendAt[p]

\* C28: a caller that enforceRateLimit() has put to sleep is eventually let
\* through with its timestamp recorded, whatever the other callers do, and
\* enforceRateLimit() never ends a call with an error.
C28_LimiterPermits ==
  /\ \A p \in LimiterCallers :
       (pc[p] = "rl_sleep") ~>
         (/\ pc[p] = "exec"
          /\ slots[p] = 1
          /\ timestamps # <<>>
          /\ timestamps[Len(timestamps)] = now)
  /\ [][\A p \in Procs : pc[p] = "rl_sleep" => pc'[p] \in {"rl_sleep", "exec"}]_vars

\* two callers have both been made to wait and both have been let through
C28_Witness ==
  \A p \in LimiterCallers : rl[p].wait > 0 /\ slots[p] >= 1

\* the codes an ASCError of the executor or the token manager carries
ErrorCodes ==
  {"AUTH_ERROR", "CONFIG_ERROR", "RATE_LIMIT", "NOT_FOUND", "FORBIDDEN",
   "CONFLICT", "API_ERROR", "TIMEOUT", "NETWORK_ERROR", "UNKNOWN"}

\* the logical call of p is under way
Running(p) == pc[p] \notin {"idle", "done"}

\* p is about to start a signing beyond the MaxGens that are followed
OutOfGens(p) ==
  /\ pc[p] = "exec"
  /\ ~hasValidToken
  /\ pendingTokenGeneration = 0
  /\ FreeGens = {}

\* the last attempt of p met a 2xx response: a 204, or one with a JSON body
LastMetOk(p) ==
  /\ met[p] # <<>>
  /\ LET r == met[p][Len(met[p])]
     IN /\ r.kind = "http"
        /\ r.status \in 200..299
        /\ r.status = 204 \/ r.json

\* C29: when every attempt responds or times out, a logical call under way
\* eventually completes, and a completed call has exactly one of a
\* response value (its last attempt met a 2xx) and a thrown ASCError with a
\* machine-readable code.
C29_CallCompletes ==
  /\ \A p \in FairCallers : Running(p) ~> (pc[p] = "done" \/ OutOfGens(p))
  /\ [](\A p \in Procs :
          pc[p] = "done" =>
            \/ result[p].kind = "value" /\ result[p].code = "" /\ LastMetOk(p)
            \/ /\ result[p].kind = "error"
               /\ result[p].code \in ErrorCodes
               /\ ~LastMetOk(p))

\* a call has completed with a value on its last attempt, after a getToken()
\* failure and a failed fetch
C29_Witness ==
  \E p \in Procs :
    /\ pc[p] = "done"
    /\ result[p].kind = "value"
    /\ Len(met[p]) = MAX_RETRIES
    /\ met[p][1] = NoFetch
    /\ met[p][2].kind # "http"
\* the fields destroy() writes are as it leaves them
Cleared ==
  /\ cachedToken = 0
  /\ tokenExpiresAt = 0
  /\ privateKey = FALSE
  /\ pendingTokenGeneration = 0

\* C30: every destroy() call, from any state, leaves the cached token, its
\* expiry, the loaded key and the pending promise cleared, so that
\* hasValidToken() is false right after it; a destroy() call in a state
\* left by destroy() changes none of the token manager's fields.
C30_DestroyClears ==
  [][destroys' = destroys + 1 =>
       /\ Cleared'
       /\ ~hasValidToken'
       /\ Cleared => UNCHANGED <<keySource, cachedToken, tokenExpiresAt,
                                 privateKey, pendingTokenGeneration, gen>>]_vars

\* destroy() has run twice; before, a key was loaded and a token signed
C30_Witness ==
  /\ destroys >= 2
  /\ Cleared
  /\ \E g \in Gens : gen[g].st = "ok"

\* C31: in every reachable state a token is cached exactly when the stored
\* expiry is not zero, and the expiry stored with a cached token is the
\* issued-at time of the signing that produced it plus 900 s.
C31_TokenWithExpiry ==
  /\ cachedToken # 0 <=> tokenExpiresAt # 0
  /\ cachedToken # 0 => tokenExpiresAt = gen[cachedToken].iat + 900

\* the token of a later signing is cached, and time passed while it was
\* being signed
C31_Witness ==
  /\ cachedToken > 1
  /\ NowSec > gen[cachedToken].iat
  /\ destroys > 0

\* t holds a match of the pattern somewhere
Holds(pattern, t) == \E i \in 1..Len(t) : MatchEnd(pattern, t, i) # 0

\* C32: the message of every failure that is raised or returned holds no
\* bearer JWT, no PEM-framed block and no UUID-shaped identifier, whatever
\* the text it was built from held.
C32_MessagesRedacted ==
  raised.via # "none" =>
    \A k \in 1..Len(Patterns) : ~Holds(Patterns[k], raised.message)

\* a failure was built from a text that held a bearer JWT and two UUIDs
C32_Witness ==
  /\ raised.via = "ASCError"
  /\ Holds("jwt", raised.text)
  /\ \E i, j \in 1..Len(raised.text) :
       /\ i < j
       /\ UuidEnd(raised.text, i) # 0
       /\ UuidEnd(raised.text, j) # 0
       /\ JwtEnd(raised.text, i) = 0

\* the code parseAPIError() gives a status, as the claim lists it
CodeOf(status) ==
  IF status = 401 THEN "AUTH_ERROR"
  ELSE IF status = 403 THEN "FORBIDDEN"
  ELSE IF status = 404 THEN "NOT_FOUND"
  ELSE IF status = 409 THEN "CONFLICT"
  ELSE "API_ERROR"

\* the response supplies a detail in its first error object
FirstDetailGiven == Len(apiError.errors) >= 1 /\ apiError.errors[1].has

\* C33 as stated: the code follows the status and the message is the first
\* error object's detail whenever there is one.
C33_DetailIsMessage ==
  apiError.made # NoRes =>
    /\ apiError.made.code = CodeOf(apiError.status)
    /\ FirstDetailGiven => apiError.message = apiError.errors[1].detail

\* C33 amended: the code follows the status; for 401 and 403 the message is
\* a fixed text whatever the body says; for every other status it is the
\* first error object's detail after redaction when there is one.
C33_DetailIsMessageAmended ==
  apiError.made # NoRes =>
    /\ apiError.made.code = CodeOf(apiError.status)
    /\ apiError.made.status = apiError.status
    /\ apiError.status = 401 => apiError.message = AuthFailedText
    /\ apiError.status = 403 => apiError.message = ForbiddenText
    /\ (apiError.status \notin {401, 403} /\ FirstDetailGiven) =>
         apiError.message =
           Replace("uuid", Replace("pem", Replace("jwt",
             apiError.errors[1].detail, 1), 1), 1)

\* a 409 whose first error object has a detail and whose second has another
C33_Witness ==
  /\ apiError.made # NoRes
  /\ apiError.status = 409
  /\ Len(apiError.errors) = 2
  /\ apiError.errors[1].has /\ apiError.errors[2].has
  /\ apiError.errors[1].detail # apiError.errors[2].detail
  /\ apiError.message = apiError.errors[1].detail

\* a ".." segment of the path, between separators or the ends
ParentSegment(path) ==
  \E i \in 1..(Len(path) - 1) :
    /\ path[i] = "." /\ path[i + 1] = "."
    /\ (i = 1 \/ path[i - 1] = "/")
    /\ (i + 1 = Len(path) \/ path[i + 2] = "/")

\* C34: constructing a TokenManager fails with ConfigError when neither a key
\* path nor inline content is supplied, and when the key path contains "..";
\* so an instance has a key source, and a path source has no parent-directory
\* segment
C34_ConstructorRejects ==
  config.outcome # "none" =>
    /\ (~config.pathGiven /\ ~config.contentGiven
          => config.outcome = "CONFIG_ERROR")
    /\ ((\E i \in 1..(Len(config.privateKeyPath) - 1) :
            config.privateKeyPath[i] = "." /\ config.privateKeyPath[i + 1] = ".")
          => config.outcome = "CONFIG_ERROR")
    /\ (config.outcome = "instance" =>
          /\ keySource \in {"path", "content"}
          /\ (keySource = "path" =>
                /\ config.privateKeyPath # <<>>
                /\ ~ParentSegment(config.privateKeyPath))
          /\ (keySource = "content" => config.privateKeyContent # <<>>))
    /\ (config.outcome = "CONFIG_ERROR" => keySource = "none")

\* the path "../" given together with inline content is rejected
C34_Witness ==
  /\ config.outcome = "CONFIG_ERROR"
  /\ config.privateKeyPath = <<".", ".", "/">>
  /\ config.contentGiven
  /\ config.privateKeyContent = <<"k">>

\* C35: every network attempt, each retry included, is preceded by its own
\* getToken() call, made after the sleep that followed the previous attempt
\* has finished; the token an attempt is sent with is therefore outside the
\* refresh buffer when it is sent, also when the cached one fell into the
\* buffer during the sleep
C35_TokenPerAttempt ==
  /\ [](\A p \in FairCallers :
          /\ pc[p] \in {"tok_wait", "tok_done", "fetch"}
               => tokCalls[p] = Len(met[p]) + 1
          /\ pc[p] \in {"exec", "sleep", "done"} => tokCalls[p] = Len(met[p])
          /\ pc[p] = "fetch" =>
               /\ tokRes[p].kind = "token"
               /\ gen[tokRes[p].val].iat + TOKEN_LIFETIME_SECONDS
                    > sendAt[p] \div 1000 + TOKEN_REFRESH_BUFFER_SECONDS)
  /\ [][\A p \in FairCallers :
          tokCalls'[p] = tokCalls[p] + 1 =>
            /\ pc[p] = "exec"
            /\ Len(sleeps[p]) = tokCalls[p]
            /\ sleeps[p] # <<>> => now >= wakeAt[p]]_vars

\* the second attempt is in flight with a token signed after the sleep, the
\* token of the first attempt being inside the refresh buffer by now
C35_Witness ==
  /\ pc[1] = "fetch"
  /\ sends[1] = 2
  /\ tokCalls[1] = 2
  /\ met[1][1].kind = "http"
  /\ tokRes[1] = Tok(2)
  /\ gen[2].iat * 1000 >= wakeAt[1] - 999
  /\ gen[1].iat + TOKEN_LIFETIME_SECONDS
       <= NowSec + TOKEN_REFRESH_BUFFER_SECONDS

\* the signing started last has failed
LastFailed ==
  \E g \in Gens :
    gen[g].st = "failed" /\ \A h \in Gens : h > g => gen[h].st = "unused"

\* C36: when a signing fails, every caller waiting on it receives that same
\* failure, the step leaves the cached token and expiry as they are and
\* clears the in-progress marker, and the next getToken() starts a new
\* signing
C36_FailedRefresh ==
  /\ [][\A g \in Gens :
          gen[g].st \in {"load", "loaded", "sign"} /\ gen'[g].st = "failed" =>
            /\ cachedToken' = cachedToken
            /\ tokenExpiresAt' = tokenExpiresAt
            /\ pendingTokenGeneration' = 0
            /\ \A p \in Procs :
                 pc[p] = "tok_wait" /\ tokWait[p] = g =>
                   /\ pc'[p] = "tok_done"
                   /\ tokRes'[p].kind = "error"
                   /\ \A q \in Procs :
                        pc[q] = "tok_wait" /\ tokWait[q] = g
                          => tokRes'[q] = tokRes'[p]]_vars
  /\ [][\A p \in Procs :
          LastFailed /\ pc[p] = "idle" /\ pc'[p] # "idle" =>
            /\ pc'[p] = "tok_wait"
            /\ pendingTokenGeneration' # 0
            /\ gen[pendingTokenGeneration'].st = "unused"
            /\ gen'[pendingTokenGeneration'].st \in {"load", "sign"}
            /\ tokWait'[p] = pendingTokenGeneration']_vars

\* the attempt met a response that is neither a 429 nor a 204 and whose body
\* is not JSON
Unparsed(r) == r.kind = "http" /\ r.status \notin {204, 429} /\ ~r.json

C38_LastRateLimitSleeps ==
  \A p \in Procs :
    (Len(met[p]) = MAX_RETRIES /\ met[p][MAX_RETRIES].kind = "http"
       /\ met[p][MAX_RETRIES].status = 429) =>
      LET ra == IF met[p][MAX_RETRIES].retryAfter = 0 THEN 60
                ELSE met[p][MAX_RETRIES].retryAfter
      IN /\ pc[p] \in {"sleep", "done"}
         /\ Len(sleeps[p]) = MAX_RETRIES
         /\ sleeps[p][MAX_RETRIES] = ra * 1000
         /\ wakeAt[p] >= sendAt[p] + ra * 1000
         /\ sends[p] <= MAX_RETRIES
         /\ pc[p] = "sleep" => result[p] = NoRes
         /\ pc[p] = "done" =>
              /\ now >= wakeAt[p]
              /\ result[p].code = "RATE_LIMIT"
              /\ result[p].val = ra

\* a 500, a network failure and then a 429 without the header: the call
\* has slept the 60 s and raised the RateLimitError
C38_Witness ==
  /\ pc[1] = "done"
  /\ Len(met[1]) = 3
  /\ met[1][1].status = 500
  /\ met[1][2].kind = "network"
  /\ met[1][3].status = 429
  /\ met[1][3].retryAfter = 0
  /\ sleeps[1] = <<1000, 2000, 60000>>
  /\ now >= sendAt[1] + 60000
  /\ result[1].code = "RATE_LIMIT"

\* C39: when the upload has failed after a successful reserve (a chunk
\* transfer or the commit failed), no request is in flight and none is sent
\* from then on: the requests made are the attempts of the one POST and the
\* one PATCH call and the transfers answered, and no DELETE is ever made
C39_NoCleanupAfterFailure ==
  (upc = "done" /\ ~upResult.success /\ Len(upChunks) >= 1) =>
    /\ Len(upResps) = Len(upChunks)
    /\ Len(upChunks) <= Len(upOps.ops)
    /\ pc[ReserveCall] = "done"
    /\ pc[CommitCall] \in {"idle", "done"}
    /\ method[ReserveCall] = "POST"
    /\ method[CommitCall] \in {"", "PATCH"}
    /\ calls[ReserveCall] = 1
    /\ calls[CommitCall] <= 1
    /\ calls[CommitCall] = 1 => Len(upChunks) = Len(upOps.ops)
    /\ Len(sendLog) - sends[ReserveCall] - sends[CommitCall]
         \in {0, PriorCalls - 1, PriorCalls}

\* both transfers were answered 200 and the commit call failed: the upload
\* has returned the failure and nothing else was started
C39_Witness ==
  /\ upc = "done"
  /\ ~upResult.success
  /\ Len(upChunks) = 2
  /\ upResps = <<[kind |-> "http", status |-> 200],
                 [kind |-> "http", status |-> 200]>>
  /\ pc[CommitCall] = "done"
  /\ result[CommitCall].kind = "error"
  /\ upThrown = result[CommitCall]
  /\ sends[CommitCall] >= 1

\* C40: every get() of paginate() after the first is made with the caller's
\* params overridden by the query parameters of the next pointer read last;
\* after a next pointer without a query string it is made with the params
\* as they are, which is the request of the first page
C40_NextPointerMerged ==
  /\ (pgc # "idle" /\ Len(pgFetches) = 1) => queryParams = params
  /\ cursor.kind \in {"abs", "rel"} =>
       /\ Len(pgFetches) > 1
       /\ queryParams["cursor"] = cursor.target
       /\ queryParams["limit"] =
            IF cursor.limit # 0 THEN cursor.limit ELSE params["limit"]
       /\ queryParams["sort"] = params["sort"]
       /\ pgReq = cursor.target
  /\ cursor.kind = "bare" =>
       /\ Len(pgFetches) > 1
       /\ queryParams = params
       /\ pgReq = 1
       /\ pgFetches[Len(pgFetches)] = pgFetches[1]

\* the first page's next pointer had no query string: the second get() is
\* in flight with the caller's params, asking for the first page again
C40_Witness ==
  /\ pgc = "fetch"
  /\ cursor.kind = "bare"
  /\ pgFetches = <<1, 1>>
  /\ params["limit"] = 1
  /\ params["sort"] = 1
  /\ queryParams = params

====
